---- MODULE Spec2Model ----
(***************************************************************************)
(* A model of cdx_toolkit: the CDX fetcher (get and the paged iterator),   *)
(* the rate-limited HTTP client, and the three-stage WARC-by-CDX pipeline. *)
(* Each subsystem has its own specification over its own variables; the    *)
(* variables of the other subsystems stay at their initial values.         *)
(***************************************************************************)
EXTENDS Integers, Sequences, FiniteSets, TLC

VARIABLES
    \* ---- CDX fetcher (cdx_toolkit/__init__.py) ----
    mode,        \* "get" (CDXFetcher.get) or "iter" (CDXFetcher.items)
    limit_given, \* the caller passed limit=
    limit0,      \* params['limit'] when fetching starts: the limit=N the
                 \* caller asked for, or the default
    limit,       \* params['limit'], decremented as records arrive
    endpoint,    \* CDXFetcherIter.endpoint / position of get's for loop
    page,        \* CDXFetcherIter.page
    cdx_objs,    \* CDXFetcherIter.cdx_objs (get: the list ret)
    ipc,         \* where the caller / iterator is
    nYielded,    \* number of records handed to the caller so far
    lastYielded, \* the latest record handed to the caller (<<>>: none yet)
    prevYielded, \* the one handed over before it (<<>>: none yet)
    lastReq,     \* endpoint index of the latest request sent (-1: none yet)
    closed,      \* endpoint indexes that have answered 'last page'
    lastAns,     \* what the server answered to the latest request of the iterator
    \* ---- rate-limited HTTP client (cdx_toolkit/myrequests.py) ----
    now,         \* time.time(), in seconds
    delay,       \* seconds spent so far in latency, oversleep and caller idling
    next_fetch,  \* retry_info[hostname]['next_fetch'] of the one host modelled
    call,        \* per thread: the locals of its myrequests_get call
    ncalls,      \* calls of myrequests_get started so far
    sinceAttempt,\* seconds since the latest requests.get to the host began,
                 \* counted up to MinInterval (MinInterval before the first)
    lastGap,     \* sinceAttempt as it was when the latest requests.get began
    \* ---- WARC-by-CDX pipeline (cdx_toolkit/filter_warc/warc_filter.py) ----
    cdx_paths,      \* per CDX file: its valid lines, and whether reading it
                    \* raises once they have been yielded
    record_limit,   \* self.record_limit (0: unlimited)
    max_file_size,  \* self.max_file_size (0: None)
    nres,           \* len(self.write_paths_as_resource_records)
    gen,            \* the job generator task
    range_jobs_queue,
    readers,        \* the reader tasks
    warc_records_queue,
    coord,          \* the writer-shutdown coordinator task
    writers,        \* the writer tasks
    result,         \* what _run_filter_pipeline has done: running / returned / raised
    total,          \* the value it returned
    jobsPut,        \* RangeJobs put on range_jobs_queue so far
    payloadsPut,    \* RangePayloads put on warc_records_queue so far
    writeFailures,  \* payloads a writer took and failed on
    \* ---- S3 shard writer (cdx_toolkit/filter_warc/s3_writer.py) ----
    upload_id,      \* S3ShardWriter.upload_id (0: None)
    part_number,    \* S3ShardWriter.part_number
    parts,          \* S3ShardWriter.parts: per part its number and its size
    buffer,         \* len(S3ShardWriter.buffer)
    spc,            \* where the writer object's caller is
    closeErr,       \* the S3 call that raised inside close ("none": none did)
    raised,         \* the exception the latest call of the caller raised
    mpu,            \* the upload as S3 has it: created, the parts listed in
                    \* the completion (<<>>: not completed), aborts attempted
    bytesWritten,   \* bytes passed to write so far
    nwrites,        \* calls of write so far
    nfailures,      \* S3 calls that have failed so far
    \* ---- one writer task and its shards (write_warc_records, rotate_files,
    \*      create_new_writer_with_header, S3ShardWriter) ----
    shards,         \* every S3ShardWriter the task has created, in order:
                    \* sequence number, warcinfo id, open (started and not yet
                    \* closed), buffer, bytes uploaded in parts, completed
    writer,         \* the shard the task's variable writer refers to (0: none)
    current_file_sequence,
    current_file_size,
    added_byte_size,\* len(item.data) of the payload being handled
    wpc,            \* where the task is
    nitems,         \* payloads taken from the records queue so far
    wfailures,      \* S3 calls that have failed so far
    \* ---- Common Crawl time windows (cdx_toolkit/commoncrawl.py) ----
    params0,        \* params as the caller passed them
    params,         \* params: closest, from_ts and to (None: None or absent)
    crawl_present,  \* the argument crawl_present of apply_cc_defaults
    cc_now,         \* the argument now of apply_cc_defaults
    raw_index_list, \* the endpoints of collinfo.json, sorted by name
    cc_sort,        \* 'ascending', 'mixed', or something else
    from_ts_t,      \* the window filter_cc_endpoints selects by (NoTime: None)
    to_t,
    index_list,     \* what filter_cc_endpoints returns
    cpc,            \* where the caller is: call / returned / raised
    \* ---- prefix matchers (cdx_toolkit/filter_cdx/matcher.py) ----
    prefixes,       \* the prefixes the matchers are constructed from
    root,           \* TrieMatcher.root: the trie's nodes and the ones with is_end
    prefixes_Tuple, \* TupleMatcher.prefixes_Tuple
    text,           \* the argument of the latest matches(text)
    trie_result,    \* what TrieMatcher.matches returned
    tuple_result,   \* what TupleMatcher.matches returned
    mpc,            \* where the caller is: construct / ready / matched / raised
    \* ---- timestamps (cdx_toolkit/timeutils.py) ----
    year_padded,    \* the platform's strftime('%Y') pads a year below 1000
    ts_in,          \* the timestamp passed to timestamp_to_time
    time_out,       \* the time it returned
    ts_out,         \* what time_to_timestamp made of that time
    tpc,            \* where the caller is: call / converted / back / raised
    \* ---- one call of myrequests_get and the answers it gets
    \*      (cdx_toolkit/myrequests.py) ----
    margs,          \* its arguments cdx, allow404, raise_error_after_n_errors,
                    \* raise_warning_after_n_errors (NotGiven: left to the default)
    mcall,          \* its locals: retries, connect_errors, retry_sec, the
                    \* latest sleep before a rate-limit retry and the one
                    \* before it, and what the
                    \* latest requests.get gave (a status or an exception)
    mlog,           \* the levels logged while handling the latest requests.get
    mresult,        \* none / returned / the exception raised
    \* ---- WARCFilter.filter and an exception on its way out of the
    \*      pipeline (cdx_toolkit/filter_warc/warc_filter.py) ----
    sigint_cancels, \* the interpreter's asyncio.run answers SIGINT by
                    \* cancelling the main task (3.11 on); before, the
                    \* signal raises KeyboardInterrupt in the running code
    needs_aws,      \* the pipeline runs inside async with clients[...]
    at,             \* the code that is running, or that the exception has reached
    exc,            \* the exception on its way out, or none
    interrupts,     \* the user interrupts raised in this call so far
    warned,         \* 'Interrupted by user.' records logged
    filter_result,  \* what filter() gave its caller
    \* ---- _filter_single_cdx_file on one CDX file
    \*      (cdx_toolkit/filter_cdx/cdx_filter.py) ----
    input_f,        \* the lines of the input file
    readable,       \* the input file can be opened
    accepted,       \* the SURTs for which matcher.is_in is true
    filter_limit,   \* the limit argument
    cfpc,           \* start / lines / end / done
    cf_i,           \* lines read so far
    output_f,       \* the lines written to the output file
    output_exists,  \* the output file exists
    lines_n,
    included_n,
    errors_n,
    \* ---- one LocalFileWriter and its file
    \*      (cdx_toolkit/filter_warc/local_writer.py) ----
    lw_buffer,      \* self.buffer
    file_bytes,     \* the bytes the file has been given
    lw_given,       \* the bytes passed to write so far, in order
    lpc,            \* new / open / closed / close_raised
    lw_failures,    \* calls on the file handle that raised
    \* ---- one call of with_retries
    \*      (cdx_toolkit/filter_warc/s3_utils.py) ----
    max_attempts,   \* its argument
    base_backoff_ms, \* its argument base_backoff_seconds, in milliseconds
    attempt,        \* the loop variable
    calls,          \* what each call of coro_factory gave, in order
    last_exc,       \* the latest retryable exception, or none
    sleeps,         \* the backoff sleeps taken, in milliseconds
    rt_result       \* running / returned / the exception raised

iterVars == <<mode, limit_given, limit0, limit, endpoint, page, cdx_objs, ipc,
              nYielded, lastYielded, prevYielded, lastReq, closed, lastAns>>
httpVars == <<now, delay, next_fetch, call, ncalls, sinceAttempt, lastGap>>

pipeVars == <<cdx_paths, record_limit, max_file_size, nres, gen, range_jobs_queue,
              readers, warc_records_queue, coord, writers, result, total,
              jobsPut, payloadsPut, writeFailures>>

s3Vars == <<upload_id, part_number, parts, buffer, spc, closeErr, raised, mpu,
            bytesWritten, nwrites, nfailures>>

wtrVars == <<shards, writer, current_file_sequence, current_file_size,
             added_byte_size, wpc, nitems, wfailures>>

ccVars == <<params0, params, crawl_present, cc_now, raw_index_list, cc_sort,
            from_ts_t, to_t, index_list, cpc>>

matchVars == <<prefixes, root, prefixes_Tuple, text, trie_result, tuple_result,
               mpc>>

\* the subsystems added after the first three
timeVars == <<year_padded, ts_in, time_out, ts_out, tpc>>

getVars == <<margs, mcall, mlog, mresult>>

fltVars == <<sigint_cancels, needs_aws, at, exc, interrupts, warned, filter_result>>

cfVars == <<input_f, readable, accepted, filter_limit, cfpc, cf_i, output_f,
           output_exists, lines_n, included_n, errors_n>>

lwVars == <<lw_buffer, file_bytes, lw_given, lpc, lw_failures>>

rtVars == <<max_attempts, base_backoff_ms, attempt, calls, last_exc, sleeps,
           rt_result>>

restVars == <<s3Vars, wtrVars, ccVars, matchVars, timeVars, getVars, fltVars,
              cfVars, lwVars, rtVars>>

vars == <<iterVars, httpVars, pipeVars, restVars>>

\* what the actions of one subsystem leave alone
notIter == <<httpVars, pipeVars, restVars>>
notHttp == <<iterVars, pipeVars, restVars>>
notPipe == <<iterVars, httpVars, restVars>>
notS3 == <<iterVars, httpVars, pipeVars, wtrVars, ccVars, matchVars, timeVars,
            getVars, fltVars, cfVars, lwVars, rtVars>>
notWtr == <<iterVars, httpVars, pipeVars, s3Vars, ccVars, matchVars, timeVars,
            getVars, fltVars, cfVars, lwVars, rtVars>>
notCc == <<iterVars, httpVars, pipeVars, s3Vars, wtrVars, matchVars, timeVars,
            getVars, fltVars, cfVars, lwVars, rtVars>>
notMatch == <<iterVars, httpVars, pipeVars, s3Vars, wtrVars, ccVars, timeVars,
            getVars, fltVars, cfVars, lwVars, rtVars>>
notTime == <<iterVars, httpVars, pipeVars, s3Vars, wtrVars, ccVars, matchVars,
            getVars, fltVars, cfVars, lwVars, rtVars>>
notGet == <<iterVars, httpVars, pipeVars, s3Vars, wtrVars, ccVars, matchVars,
           timeVars, fltVars, cfVars, lwVars, rtVars>>
notFlt == <<iterVars, httpVars, pipeVars, s3Vars, wtrVars, ccVars, matchVars,
           timeVars, getVars, cfVars, lwVars, rtVars>>
notCf == <<iterVars, httpVars, pipeVars, s3Vars, wtrVars, ccVars, matchVars,
          timeVars, getVars, fltVars, lwVars, rtVars>>
notLw == <<iterVars, httpVars, pipeVars, s3Vars, wtrVars, ccVars, matchVars,
          timeVars, getVars, fltVars, cfVars, rtVars>>
notRt == <<iterVars, httpVars, pipeVars, s3Vars, wtrVars, ccVars, matchVars,
          timeVars, getVars, fltVars, cfVars, lwVars>>

-----------------------------------------------------------------------------
(* Bounds *)
NumEndpoints == 2     \* len(index_list)
MaxPages     == 2     \* a server has data on pages 0..MaxPages-1 at most
MaxPerPage   == 2     \* records in one response
MaxLimit     == 2     \* the caller's limit=N ranges over 1..MaxLimit
NumThreads   == 2     \* threads calling myrequests_get for the same host
MaxCalls     == 2     \* calls of myrequests_get, over all threads
MaxRetries   == 1     \* 429/5xx answers a server gives to one call
MaxDelay     == 3     \* seconds of request latency, oversleep and caller
                      \* idling, in total, besides the sleeps of the code

NumReaders   == 2     \* self.num_readers
NumWriters   == 2     \* self.num_writers
MaxFiles     == 2     \* len(self.cdx_paths) ranges over 0..MaxFiles
MaxLines     == 2     \* valid lines of one CDX file
MaxGenFiles  == 3     \* len(self.cdx_paths) where the generator is taken alone
MaxRecordLimit == 2   \* record_limit ranges over 0..MaxRecordLimit
JobsQueueSize == 2    \* range_jobs_queue_size
RecordsQueueSize == 1 \* warc_records_queue_size
MaxPayload   == 2     \* len(data) of a fetched range ranges over 1..MaxPayload
MaxResources == 1     \* resource records per shard range over 0..MaxResources
HeaderSize   == 1     \* len(header_data) of a shard's warcinfo record
ResourceSize == 1     \* len(record_data) of one resource record
FileSizeLimit == 4    \* max_file_size is None (0) or this

MinPartSize  == 2     \* self.min_part_size
MaxWriteSize == 3     \* len(data) of one write ranges over 1..MaxWriteSize
MaxWrites    == 3     \* calls of write on one shard writer
MaxFailures  == 2     \* S3 calls that fail (after their retries)
MaxItems     == 3     \* payloads one writer task takes from the records queue
MaxItemSize  == 3     \* len(item.data) of such a payload ranges over 1..MaxItemSize
BufferSize   == 2     \* self.buffer_size of a LocalFileWriter
MaxLocalWrites == 3   \* calls of write on one LocalFileWriter
MaxLocalData == 2     \* len(data) of one of them ranges over 1..MaxLocalData
MaxLocalFailures == 1 \* calls on its file handle that raise
MaxAttempts  == 3     \* max_attempts of with_retries ranges over 1..MaxAttempts
MinSleepMs   == 50    \* the 0.05 of _backoff, in milliseconds

MaxBackoffs  == 5     \* 429/5xx answers to the one call whose answers are followed
MaxCeiling   == 3     \* raise_error_after_n_errors and raise_warning_after_n_errors,
                      \* where given, range over 0..MaxCeiling
MaxCdxLines  == 3     \* lines of a CDX file given to the CDX filter
MaxFilterLimit == 2   \* limit of the CDX filter ranges over 0..MaxFilterLimit
MaxInterrupts == 2    \* user interrupts during one call of filter
FirstYear    == 2016  \* timestamps and crawls lie in the years
NumYears     == 3     \* FirstYear .. FirstYear + NumYears - 1
NumCrawls    == 4     \* len(raw_index_list) ranges over 0..NumCrawls
MaxPrefixes  == 2     \* len(prefixes) ranges over 0..MaxPrefixes
MaxPrefixLen == 2     \* len(prefix) ranges over 0..MaxPrefixLen
MaxTextLen   == 2     \* len(text) ranges over 0..MaxTextLen

(* Program constants *)
MinInterval  == 3     \* retry_info['default']['minimum_interval']
RetryMaxSec  == 60    \* retry_max_sec
RaiseErrorAfterNErrors == 1   \* raise_error_after_n_errors
RaiseWarningAfterNErrors == 10   \* raise_warning_after_n_errors
DefaultLimit == 1000  \* params['limit'] = 1000

-----------------------------------------------------------------------------
(* Helpers *)
Min(a, b) == IF a < b THEN a ELSE b
Max(a, b) == IF a > b THEN a ELSE b

\* the records of one response: record i of page p of endpoint e
PageRecords(e, p, k) == [i \in 1..k |-> <<e, p, i>>]

\* lexicographic order on (endpoint index, page number, position in page)
LexLess(a, b) ==
    \/ a[1] < b[1]
    \/ a[1] = b[1] /\ a[2] < b[2]
    \/ a[1] = b[1] /\ a[2] = b[2] /\ a[3] < b[3]

-----------------------------------------------------------------------------
(* The values a subsystem's variables keep while another one is checked *)

IterParked ==
    /\ mode = "none"
    /\ limit_given = FALSE
    /\ limit0 = 0
    /\ limit = 0
    /\ endpoint = 0
    /\ page = -1
    /\ cdx_objs = <<>>
    /\ ipc = "none"
    /\ nYielded = 0
    /\ lastYielded = <<>>
    /\ prevYielded = <<>>
    /\ lastReq = -1
    /\ closed = {}
    /\ lastAns = "none"

HttpParked ==
    /\ now = 0
    /\ delay = 0
    /\ next_fetch = 0
    /\ call = <<>>
    /\ ncalls = 0
    /\ sinceAttempt = 0
    /\ lastGap = 0

\* the pipeline's tasks and queues before it runs
PipeTasksParked ==
    /\ cdx_paths = <<>>
    /\ record_limit = 0
    /\ gen = <<>>
    /\ range_jobs_queue = <<>>
    /\ readers = <<>>
    /\ warc_records_queue = <<>>
    /\ coord = <<>>
    /\ writers = <<>>
    /\ result = "none"
    /\ total = 0
    /\ jobsPut = 0
    /\ payloadsPut = 0
    /\ writeFailures = 0

PipeParked ==
    /\ PipeTasksParked
    /\ max_file_size = 0
    /\ nres = 0

S3Parked ==
    /\ upload_id = 0
    /\ part_number = 1
    /\ parts = <<>>
    /\ buffer = 0
    /\ spc = "none"
    /\ closeErr = "none"
    /\ raised = "none"
    /\ mpu = <<>>
    /\ bytesWritten = 0
    /\ nwrites = 0
    /\ nfailures = 0

WtrParked ==
    /\ shards = <<>>
    /\ writer = 0
    /\ current_file_sequence = 1
    /\ current_file_size = 0
    /\ added_byte_size = 0
    /\ wpc = "none"
    /\ nitems = 0
    /\ wfailures = 0

\* None of a time (a time is a pair of days and seconds of the day)
NoTime == <<0, -1>>

CcParked ==
    /\ params0 = <<>>
    /\ params = <<>>
    /\ crawl_present = FALSE
    /\ cc_now = NoTime
    /\ raw_index_list = <<>>
    /\ cc_sort = "none"
    /\ from_ts_t = NoTime
    /\ to_t = NoTime
    /\ index_list = <<>>
    /\ cpc = "none"

MatchParked ==
    /\ prefixes = <<>>
    /\ root = <<>>
    /\ prefixes_Tuple = <<>>
    /\ text = <<>>
    /\ trie_result = FALSE
    /\ tuple_result = FALSE
    /\ mpc = "none"

TimeParked ==
    /\ year_padded = FALSE
    /\ ts_in = <<>>
    /\ time_out = NoTime
    /\ ts_out = <<>>
    /\ tpc = "none"

GetParked ==
    /\ margs = [url |-> "", cdx |-> FALSE, allow404 |-> FALSE,
                raise_error_after_n_errors |-> -1,
                raise_warning_after_n_errors |-> -1]
    /\ mcall = [retries |-> 0, connect_errors |-> 0, got |-> "none",
                retry_sec |-> 0, slept |-> 0, slept_before |-> 0]
    /\ mlog = <<>>
    /\ mresult = "parked"

FltParked ==
    /\ sigint_cancels = FALSE
    /\ needs_aws = FALSE
    /\ at = "parked"
    /\ exc = "none"
    /\ interrupts = 0
    /\ warned = 0
    /\ filter_result = "none"

CfParked ==
    /\ input_f = <<>>
    /\ readable = FALSE
    /\ accepted = {}
    /\ filter_limit = 0
    /\ cfpc = "parked"
    /\ cf_i = 0
    /\ output_f = <<>>
    /\ output_exists = FALSE
    /\ lines_n = 0
    /\ included_n = 0
    /\ errors_n = 0

LwParked ==
    /\ lw_buffer = <<>>
    /\ file_bytes = <<>>
    /\ lw_given = <<>>
    /\ lpc = "parked"
    /\ lw_failures = 0

RtParked ==
    /\ max_attempts = 0
    /\ base_backoff_ms = 0
    /\ attempt = 0
    /\ calls = <<>>
    /\ last_exc = "none"
    /\ sleeps = <<>>
    /\ rt_result = "parked"

\* every subsystem but the one named keeps its parked values
ParkedBut(x) ==
    /\ IF x = "iter" THEN TRUE ELSE IterParked
    /\ IF x = "http" THEN TRUE ELSE HttpParked
    /\ IF x = "pipe" THEN TRUE ELSE PipeParked
    /\ IF x = "s3" THEN TRUE ELSE S3Parked
    /\ IF x = "writer" THEN TRUE ELSE WtrParked
    /\ IF x = "cc" THEN TRUE ELSE CcParked
    /\ IF x = "match" THEN TRUE ELSE MatchParked
    /\ IF x = "time" THEN TRUE ELSE TimeParked
    /\ IF x = "get" THEN TRUE ELSE GetParked
    /\ IF x = "filter" THEN TRUE ELSE FltParked
    /\ IF x = "cdx_filter" THEN TRUE ELSE CfParked
    /\ IF x = "local_writer" THEN TRUE ELSE LwParked
    /\ IF x = "with_retries" THEN TRUE ELSE RtParked

-----------------------------------------------------------------------------
(* CDX fetcher *)

\* what a server may answer to the request for page p: "400" (pywb: page too
\* far), "empty" (ia: empty body), "404" (pywb: an error body, 'No Captures
\* found'), or a body of k records.
\* A server has no data beyond page MaxPages-1.
Answers(p) ==
    IF p >= MaxPages THEN {"400", "empty"}
    ELSE {"400", "empty"} \cup {"404", "ok"}

\* the numbers of records cdx_to_json may find in the body: none in a 404
RecordCounts(a) == IF a = "404" THEN {0} ELSE 0..MaxPerPage

ExtendBug(objs, new) == new \o objs
\* list.extend
Extend(objs, new) == objs \o new

NextEndpointBug(e) == e
\* self.endpoint += 1
NextEndpoint(e) == e + 1

\* if 'limit' not in params: params['limit'] = 1000, in get and in items
default_limit(m) == DefaultLimit

\* get_for_iter's early returns: no request is sent
LastEndpoint(e, lim) == e >= NumEndpoints \/ lim = 0

InitIter ==
    /\ ParkedBut("iter")
    /\ mode \in {"get", "iter"}
    /\ limit_given \in BOOLEAN
    /\ limit0 \in IF limit_given THEN 1..MaxLimit ELSE {default_limit(mode)}
    /\ limit = limit0
    /\ endpoint = 0
    /\ page = -1
    /\ cdx_objs = <<>>
    /\ ipc = IF mode = "get" THEN "get_loop" ELSE "get_more_init"
    /\ nYielded = 0
    /\ lastYielded = <<>>
    /\ prevYielded = <<>>
    /\ lastReq = -1
    /\ closed = {}
    /\ lastAns = "none"

\* CDXFetcher.get: one turn of "for endpoint in index_list"
GetEndpoint ==
    /\ ipc = "get_loop"
    /\ endpoint < NumEndpoints
    /\ lastReq' = endpoint
    /\ \E k \in 0..MaxPerPage :
        /\ cdx_objs' = Extend(cdx_objs, PageRecords(endpoint, 0, k))
        /\ limit' = limit - k
        /\ IF limit' <= 0
              THEN /\ ipc' = "get_return"
                   /\ endpoint' = endpoint
              ELSE /\ ipc' = "get_loop"
                   /\ endpoint' = endpoint + 1
    /\ UNCHANGED <<mode, limit_given, limit0, page, nYielded, lastYielded, prevYielded,
                   closed, lastAns>>
    /\ UNCHANGED notIter

\* CDXFetcher.get: the for loop ends (exhausted or break) and ret is returned
GetReturn ==
    /\ \/ ipc = "get_return"
       \/ ipc = "get_loop" /\ endpoint >= NumEndpoints
    /\ nYielded' = Len(cdx_objs)
    /\ lastYielded' = IF Len(cdx_objs) >= 1 THEN cdx_objs[Len(cdx_objs)] ELSE <<>>
    /\ prevYielded' = IF Len(cdx_objs) >= 2 THEN cdx_objs[Len(cdx_objs) - 1] ELSE <<>>
    /\ cdx_objs' = <<>>
    /\ ipc' = "returned"
    /\ UNCHANGED <<mode, limit_given, limit0, limit, endpoint, page, lastReq, closed,
                   lastAns>>
    /\ UNCHANGED notIter

InGetMore == ipc \in {"get_more_init", "get_more_next"}

\* get_more: one turn of its while loop in which get_for_iter sends a request
GetMoreRequest ==
    /\ InGetMore
    /\ ~LastEndpoint(endpoint, limit)
    /\ lastReq' = endpoint
    /\ \E a \in Answers(page + 1) :
        /\ lastAns' = a
        /\ IF a \in {"400", "empty"}
           THEN \* 'last page'
                /\ endpoint' = NextEndpoint(endpoint)
                /\ page' = -1
                /\ closed' = closed \cup {endpoint}
                /\ UNCHANGED <<cdx_objs, limit>>
           ELSE \* 'ok'
                \E k \in RecordCounts(a) :
                    /\ page' = page + 1
                    /\ endpoint' = endpoint
                    /\ cdx_objs' = Extend(cdx_objs, PageRecords(endpoint, page + 1, k))
                    /\ limit' = limit - k
                    /\ UNCHANGED closed
    /\ UNCHANGED <<mode, limit_given, limit0, ipc, nYielded, lastYielded, prevYielded>>
    /\ UNCHANGED notIter

\* get_more: get_for_iter answers 'last endpoint' and get_more returns, to the
\* constructor or to __next__ (which raises StopIteration on an empty buffer)
GetMoreReturn ==
    /\ InGetMore
    /\ LastEndpoint(endpoint, limit)
    /\ page' = page + 1
    /\ ipc' = IF ipc = "get_more_next" /\ Len(cdx_objs) <= 0
                 THEN "stopped" ELSE "idle"
    /\ UNCHANGED <<mode, limit_given, limit0, limit, endpoint, cdx_objs, nYielded,
                   lastYielded, prevYielded, lastReq, closed, lastAns>>
    /\ UNCHANGED notIter

\* __next__: pop(0), or get_more() when the buffer is empty
IterNext ==
    /\ ipc = "idle"
    /\ IF cdx_objs # <<>>
          THEN /\ nYielded' = nYielded + 1
               /\ lastYielded' = Head(cdx_objs)
               /\ prevYielded' = lastYielded
               /\ cdx_objs' = Tail(cdx_objs)
               /\ ipc' = "idle"
          ELSE /\ ipc' = "get_more_next"
               /\ UNCHANGED <<nYielded, lastYielded, prevYielded, cdx_objs>>
    /\ UNCHANGED <<mode, limit_given, limit0, limit, endpoint, page, lastReq, closed,
                   lastAns>>
    /\ UNCHANGED notIter

NextIter ==
    \/ GetEndpoint
    \/ GetReturn
    \/ GetMoreRequest
    \/ GetMoreReturn
    \/ IterNext

SpecIter == InitIter /\ [][NextIter]_vars

-----------------------------------------------------------------------------
(* Claims about the CDX fetcher *)

\* C1: a query run with limit=N hands at most N records to the caller,
\* whatever the servers return.
C1_LimitBound == nYielded <= limit0

\* C2: the iterator yields records in endpoint order, then page order, then
\* in-page order: the (endpoint, page, position) triple of each record
\* yielded is lexicographically greater than that of the record yielded
\* before it (and so, the order being transitive, than all earlier ones).
C2_YieldOrder ==
    (mode = "iter" /\ prevYielded # <<>>) => LexLess(prevYielded, lastYielded)

\* two records of different pages of one endpoint were yielded one after the
\* other, after records of an earlier endpoint
C2_Witness ==
    /\ mode = "iter"
    /\ prevYielded # <<>>
    /\ prevYielded[1] = 1 /\ lastYielded[1] = 1
    /\ prevYielded[2] < lastYielded[2]
    /\ nYielded >= 3

\* C3: within one iteration the endpoint index of the requests never
\* decreases, and once an endpoint has answered 'last page' no later request
\* goes to it.
C3_NoRequery ==
    [][(mode = "iter" /\ GetMoreRequest) =>
           /\ endpoint >= lastReq
           /\ endpoint \notin closed
           /\ endpoint' >= endpoint]_vars

\* endpoint 0 has answered 'last page' after a page of data and endpoint 1
\* has been queried since
C3_Witness ==
    /\ mode = "iter"
    /\ 0 \in closed
    /\ lastReq = 1
    /\ cdx_objs # <<>> /\ Head(cdx_objs)[1] = 0

-----------------------------------------------------------------------------
(* Rate-limited HTTP client: myrequests_get for one host, called from        *)
(* NumThreads threads (fetch_single_record runs in a ThreadPoolExecutor).    *)
(* A thread is suspended in time.sleep and in requests.get; a sleep lasts    *)
(* at least as long as asked.                                                *)

Threads == 1..NumThreads

StartTime == 10

\* a thread outside myrequests_get: its locals are dead
IdleCall == [pc |-> "idle", nf |-> 0, wake |-> 0, retry_sec |-> 0,
             retries |-> 0, connect_errors |-> 0]

InitHttp ==
    /\ ParkedBut("http")
    /\ now = StartTime
    /\ delay = 0
    /\ next_fetch = 0
    /\ call = [c \in Threads |-> IdleCall]
    /\ ncalls = 0
    /\ sinceAttempt = MinInterval
    /\ lastGap = MinInterval

\* get_retries: an unset next_fetch becomes time.time()
GetRetries(nf, t) == IF nf = 0 THEN t ELSE nf

\* update_next_fetch(hostname, next_fetch + minimum_interval), line 77
Advanced(nf, t) == nf + MinInterval

\* update_next_fetch(hostname, time.time() + minimum_interval), line 160
Reset(t) == t + MinInterval

BackoffBug(r) == r * 2
\* retry_sec = min(retry_sec*2, retry_max_sec)
Backoff(r) == Min(r * 2, RetryMaxSec)

\* lines 66-75: read the clock and the table, then sleep until next_fetch
CallStart(c) ==
    /\ call[c].pc = "idle"
    /\ ncalls < MaxCalls
    /\ ncalls' = ncalls + 1
    /\ next_fetch' = GetRetries(next_fetch, now)
    /\ call' = [call EXCEPT ![c] =
                   [pc |-> "pre", nf |-> next_fetch', wake |-> Max(next_fetch', now),
                    retry_sec |-> 2 * MinInterval, retries |-> 0,
                    connect_errors |-> 0]]
    /\ UNCHANGED <<now, delay, sinceAttempt, lastGap>>
    /\ UNCHANGED notHttp

\* line 77 and the first requests.get of the call
FirstAttempt(c) ==
    /\ call[c].pc = "pre"
    /\ now >= call[c].wake
    /\ next_fetch' = Advanced(call[c].nf, now)
    /\ call' = [call EXCEPT ![c].pc = "in_flight", ![c].nf = 0, ![c].wake = 0]
    /\ lastGap' = sinceAttempt
    /\ sinceAttempt' = 0
    /\ UNCHANGED <<now, delay, ncalls>>
    /\ UNCHANGED notHttp

\* the sleep before a retry ends and requests.get is called again
RetryAttempt(c) ==
    /\ call[c].pc = "retry_sleep"
    /\ now >= call[c].wake
    /\ call' = [call EXCEPT ![c].pc = "in_flight", ![c].wake = 0]
    /\ lastGap' = sinceAttempt
    /\ sinceAttempt' = 0
    /\ UNCHANGED <<now, delay, next_fetch, ncalls>>
    /\ UNCHANGED notHttp

\* a 2xx answer, or a 400/404 the caller accepts: lines 155-162
RespondOk(c) ==
    /\ call[c].pc = "in_flight"
    /\ next_fetch' = Reset(now)
    /\ call' = [call EXCEPT ![c] = IdleCall]
    /\ UNCHANGED <<now, delay, ncalls, sinceAttempt, lastGap>>
    /\ UNCHANGED notHttp

\* 429/500/502/503/504/509: sleep retry_sec, double it, try again
RespondRetry(c) ==
    /\ call[c].pc = "in_flight"
    /\ call[c].retries < MaxRetries
    /\ call' = [call EXCEPT ![c].pc = "retry_sleep",
                            ![c].retries = @ + 1,
                            ![c].wake = now + call[c].retry_sec,
                            ![c].retry_sec = Backoff(@)]
    /\ UNCHANGED <<now, delay, next_fetch, ncalls, sinceAttempt, lastGap>>
    /\ UNCHANGED notHttp

\* ConnectionError / Timeout: raise after too many, else sleep retry_max_sec
RespondConnectError(c) ==
    /\ call[c].pc = "in_flight"
    /\ IF call[c].connect_errors + 1 > RaiseErrorAfterNErrors
          THEN call' = [call EXCEPT ![c] = IdleCall]
          ELSE call' = [call EXCEPT ![c].pc = "retry_sleep",
                                    ![c].connect_errors = @ + 1,
                                    ![c].wake = now + RetryMaxSec,
                                    ![c].retry_sec = Backoff(@)]
    /\ UNCHANGED <<now, delay, next_fetch, ncalls, sinceAttempt, lastGap>>
    /\ UNCHANGED notHttp

\* another 4xx (RuntimeError, raise_for_status) or a fatal DNS error: the
\* exception leaves myrequests_get before line 160
RespondRaise(c) ==
    /\ call[c].pc = "in_flight"
    /\ call' = [call EXCEPT ![c] = IdleCall]
    /\ UNCHANGED <<now, delay, next_fetch, ncalls, sinceAttempt, lastGap>>
    /\ UNCHANGED notHttp

\* the earliest end of a sleep still ahead
PendingWakes == {call[c].wake : c \in {t \in Threads : call[t].wake > now}}

\* one second passes while a request is in flight, a woken thread is not yet
\* running, or the caller is busy elsewhere
Delay ==
    /\ delay < MaxDelay
    /\ delay' = delay + 1
    /\ now' = now + 1
    /\ sinceAttempt' = Min(sinceAttempt + 1, MinInterval)
    /\ UNCHANGED <<next_fetch, call, ncalls, lastGap>>
    /\ UNCHANGED notHttp

\* a thread whose sleep has ended, not yet running again
Runnable(c) == call[c].pc \in {"pre", "retry_sleep"} /\ now >= call[c].wake

\* with one thread only, a thread whose sleep has ended runs at once
DelayAlone ==
    /\ ~Runnable(1)
    /\ Delay

\* time.sleep: the clock runs to the end of the earliest sleep
SleepUntilWake ==
    /\ PendingWakes # {}
    /\ \E w \in PendingWakes :
        /\ \A v \in PendingWakes : w <= v
        /\ now' = w
        /\ sinceAttempt' = Min(sinceAttempt + (w - now), MinInterval)
    /\ UNCHANGED <<delay, next_fetch, call, ncalls, lastGap>>
    /\ UNCHANGED notHttp

NextHttp ==
    \/ \E c \in Threads : CallStart(c)
    \/ \E c \in Threads : FirstAttempt(c)
    \/ \E c \in Threads : RetryAttempt(c)
    \/ \E c \in Threads : RespondOk(c)
    \/ \E c \in Threads : RespondRetry(c)
    \/ \E c \in Threads : RespondConnectError(c)
    \/ \E c \in Threads : RespondRaise(c)
    \/ Delay
    \/ SleepUntilWake

SpecHttp == InitHttp /\ [][NextHttp]_vars

\* the same client called from one thread only: calls never overlap
NextHttpSeq ==
    \/ CallStart(1)
    \/ FirstAttempt(1)
    \/ RetryAttempt(1)
    \/ RespondOk(1)
    \/ RespondRetry(1)
    \/ RespondConnectError(1)
    \/ RespondRaise(1)
    \/ DelayAlone
    \/ SleepUntilWake

SpecHttpSeq == InitHttp /\ [][NextHttpSeq]_vars

-----------------------------------------------------------------------------
(* Claims about the HTTP client *)

\* C4: every request attempt to the host starts at least the host's minimum
\* interval after the previous attempt to it, in the same call or a later one.
C4_MinGap == lastGap >= MinInterval

\* C5: when calls to the same host overlap, no update of next_fetch (the
\* advance before the request, the reset after it) lowers its value.
C5_Monotone == [][next_fetch' >= next_fetch]_vars

-----------------------------------------------------------------------------
(* WARC-by-CDX pipeline: WARCFilter._run_filter_pipeline and its tasks.     *)
(* The tasks run in one event loop; a step of a task runs from one await    *)
(* that can suspend it to the next.                                         *)

Readers == 1..NumReaders
Writers == 1..NumWriters

JOB  == [stop |-> FALSE, size |-> 0]
STOP == [stop |-> TRUE, size |-> 0]
Payload(n) == [stop |-> FALSE, size |-> n]

CdxFiles == [lines : 0..MaxLines, fails : BOOLEAN]

\* create_new_writer_with_header, then write_resource_records
NewShardSize(n) == HeaderSize + n * ResourceSize

\* the pipeline as filter_async starts it, on at most m CDX files
InitPipeOn(m) ==
    /\ ParkedBut("pipe")
    /\ cdx_paths \in UNION {[1..n -> CdxFiles] : n \in 0..m}
    /\ record_limit \in 0..MaxRecordLimit
    /\ max_file_size \in {0, FileSizeLimit}
    /\ nres \in 0..MaxResources
    /\ gen = [pc |-> IF cdx_paths = <<>> THEN "stops" ELSE "lines",
              f |-> 1, k |-> 0, count |-> 0, cnt |-> 0, stops |-> 0]
    /\ range_jobs_queue = <<>>
    /\ readers = [r \in Readers |->
                     [pc |-> "get", size |-> 0, unfinished |-> 0, logged |-> 0]]
    /\ warc_records_queue = <<>>
    /\ coord = [pc |-> "wait", posted |-> 0]
    /\ writers = [w \in Writers |->
                     [pc |-> "open", seq |-> 1, size |-> 0, written |-> 0,
                      res |-> 0]]
    /\ result = "running"
    /\ total = 0
    /\ jobsPut = 0
    /\ payloadsPut = 0
    /\ writeFailures = 0

InitPipe == InitPipeOn(MaxFiles)

Running == result = "running"

\* "if self.record_limit > 0 and count >= self.record_limit"
LimitReached(c) == record_limit > 0 /\ c >= record_limit

\* generate_range_jobs_from_cdx after the try/except of one file, with the
\* count it has then: break, leave the for loop, or go on to the next file
AfterFile(c) ==
    IF LimitReached(c) \/ gen.f = Len(cdx_paths)
       THEN [gen EXCEPT !.pc = "stops", !.count = c, !.k = 0, !.cnt = 0]
       ELSE [gen EXCEPT !.pc = "lines", !.count = c, !.f = @ + 1, !.k = 0, !.cnt = c]

\* generate_range_jobs_from_single_cdx: put one job; on the limit, break and
\* return count, which the caller adds to its own count
GenPutJob ==
    /\ Running
    /\ gen.pc = "lines"
    /\ gen.k < cdx_paths[gen.f].lines
    /\ Len(range_jobs_queue) < JobsQueueSize
    /\ range_jobs_queue' = Append(range_jobs_queue, JOB)
    /\ jobsPut' = jobsPut + 1
    /\ IF LimitReached(gen.cnt + 1)
          THEN gen' = AfterFile(gen.count + (gen.cnt + 1))
          ELSE gen' = [gen EXCEPT !.k = @ + 1, !.cnt = @ + 1]
    /\ UNCHANGED <<cdx_paths, record_limit, max_file_size, nres, readers,
                   warc_records_queue, coord, writers, result, total,
                   payloadsPut, writeFailures>>
    /\ UNCHANGED notPipe

\* the CDX iterator of the file ends: it is exhausted and count is returned,
\* or it raises and the caller's except clause leaves its count as it was
GenFileEnd ==
    /\ Running
    /\ gen.pc = "lines"
    /\ gen.k = cdx_paths[gen.f].lines
    /\ IF cdx_paths[gen.f].fails
          THEN gen' = AfterFile(gen.count)
          ELSE gen' = AfterFile(gen.count + gen.cnt)
    /\ UNCHANGED <<cdx_paths, record_limit, max_file_size, nres, range_jobs_queue,
                   readers, warc_records_queue, coord, writers, result, total,
                   jobsPut, payloadsPut, writeFailures>>
    /\ UNCHANGED notPipe

StopsToPostBug == NumReaders - 1
\* "for _ in range(self.num_readers)"
StopsToPost == NumReaders

\* "await range_jobs_queue.put(_STOP)"
GenPutStop ==
    /\ Running
    /\ gen.pc = "stops"
    /\ gen.stops < StopsToPost
    /\ Len(range_jobs_queue) < JobsQueueSize
    /\ range_jobs_queue' = Append(range_jobs_queue, STOP)
    /\ gen' = [gen EXCEPT !.stops = @ + 1]
    /\ UNCHANGED <<cdx_paths, record_limit, max_file_size, nres, readers,
                   warc_records_queue, coord, writers, result, total,
                   jobsPut, payloadsPut, writeFailures>>
    /\ UNCHANGED notPipe

\* the closing logger.info names index_path, which is unbound when the for
\* loop never ran
GenFinish ==
    /\ Running
    /\ gen.pc = "stops"
    /\ gen.stops >= StopsToPost
    /\ gen' = [gen EXCEPT !.pc = IF cdx_paths = <<>> THEN "crashed" ELSE "done"]
    /\ UNCHANGED <<cdx_paths, record_limit, max_file_size, nres, range_jobs_queue,
                   readers, warc_records_queue, coord, writers, result, total,
                   jobsPut, payloadsPut, writeFailures>>
    /\ UNCHANGED notPipe

\* "job = await range_jobs_queue.get()": one more item of the queue that
\* task_done has not been called for
Took(rd) == [rd EXCEPT !.unfinished = @ + 1]

ReaderFailedBug(rd) ==
    [rd EXCEPT !.pc = "done", !.size = 0, !.logged = @ + 1, !.unfinished = @ - 1]
\* "except Exception: logger.exception(...)", then "finally:
\* range_jobs_queue.task_done()" and the next turn of "while True"
ReaderFailed(rd) ==
    [rd EXCEPT !.pc = "get", !.size = 0, !.logged = @ + 1, !.unfinished = @ - 1]

\* read_warc_records: take a job; _STOP ends the reader, a failed ranged read
\* is logged, a fetched range is to be put on the records queue
ReaderGet(r) ==
    /\ Running
    /\ readers[r].pc = "get"
    /\ range_jobs_queue # <<>>
    /\ range_jobs_queue' = Tail(range_jobs_queue)
    /\ IF Head(range_jobs_queue).stop
          THEN readers' = [readers EXCEPT ![r] =
                              [Took(@) EXCEPT !.pc = "done", !.unfinished = @ - 1]]
          ELSE \/ readers' = [readers EXCEPT ![r] = ReaderFailed(Took(@))]
               \/ \E n \in 1..MaxPayload :
                      readers' = [readers EXCEPT ![r] =
                                      [Took(@) EXCEPT !.pc = "put", !.size = n]]
    /\ UNCHANGED <<cdx_paths, record_limit, max_file_size, nres, gen,
                   warc_records_queue, coord, writers, result, total,
                   jobsPut, payloadsPut, writeFailures>>
    /\ UNCHANGED notPipe

\* "await warc_records_queue.put(RangePayload(job=job, data=data))"
ReaderPut(r) ==
    /\ Running
    /\ readers[r].pc = "put"
    /\ Len(warc_records_queue) < RecordsQueueSize
    /\ warc_records_queue' = Append(warc_records_queue, Payload(readers[r].size))
    /\ readers' = [readers EXCEPT ![r] =
                       [@ EXCEPT !.pc = "get", !.size = 0, !.unfinished = @ - 1]]
    /\ payloadsPut' = payloadsPut + 1
    /\ UNCHANGED <<cdx_paths, record_limit, max_file_size, nres, gen,
                   range_jobs_queue, coord, writers, result, total,
                   jobsPut, writeFailures>>
    /\ UNCHANGED notPipe

\* the put raises inside the try block
ReaderPutFails(r) ==
    /\ Running
    /\ readers[r].pc = "put"
    /\ readers' = [readers EXCEPT ![r] = ReaderFailed(@)]
    /\ UNCHANGED <<cdx_paths, record_limit, max_file_size, nres, gen,
                   range_jobs_queue, warc_records_queue, coord, writers, result,
                   total, jobsPut, payloadsPut, writeFailures>>
    /\ UNCHANGED notPipe

AllReadersDoneBug == \E r \in Readers : readers[r].pc = "done"
\* "while completed_readers < len(warc_readers)" has ended
AllReadersDone == \A r \in Readers : readers[r].pc = "done"

\* _coordinate_writer_shutdown leaves its monitoring loop
CoordObserve ==
    /\ Running
    /\ coord.pc = "wait"
    /\ AllReadersDone
    /\ coord' = [coord EXCEPT !.pc = "post"]
    /\ UNCHANGED <<cdx_paths, record_limit, max_file_size, nres, gen,
                   range_jobs_queue, readers, warc_records_queue, writers,
                   result, total, jobsPut, payloadsPut, writeFailures>>
    /\ UNCHANGED notPipe

\* "for _ in range(self.num_writers): await warc_records_queue.put(_STOP)"
CoordPutStop ==
    /\ Running
    /\ coord.pc = "post"
    /\ Len(warc_records_queue) < RecordsQueueSize
    /\ warc_records_queue' = Append(warc_records_queue, STOP)
    /\ coord' = [pc |-> IF coord.posted + 1 >= NumWriters THEN "done" ELSE "post",
                 posted |-> coord.posted + 1]
    /\ UNCHANGED <<cdx_paths, record_limit, max_file_size, nres, gen,
                   range_jobs_queue, readers, writers, result, total,
                   jobsPut, payloadsPut, writeFailures>>
    /\ UNCHANGED notPipe

RotateNeededBug(cur, add) == max_file_size # 0 /\ cur + add >= max_file_size
\* "if self.max_file_size and current_file_size + added_byte_size > self.max_file_size"
RotateNeeded(cur, add) == max_file_size # 0 /\ cur + add > max_file_size

\* rotate_files
Rotated(wr, add) ==
    IF RotateNeeded(wr.size, add)
       THEN [wr EXCEPT !.seq = @ + 1, !.size = NewShardSize(nres), !.res = @ + nres]
       ELSE wr

\* write_warc_records before its try block: the first shard is opened and
\* gets its header and resource records.  Nothing of it is seen by another
\* task, so it is taken together with the writer's first queue.get().
Opened(wr) ==
    IF wr.pc = "open"
       THEN [wr EXCEPT !.pc = "run", !.size = NewShardSize(nres), !.res = nres]
       ELSE wr

\* the opening of the first shard raises, outside the try block, and ends
\* the task
WriterOpenFails(w) ==
    /\ Running
    /\ writers[w].pc = "open"
    /\ writers' = [writers EXCEPT ![w].pc = "failed"]
    /\ UNCHANGED <<cdx_paths, record_limit, max_file_size, nres, gen,
                   range_jobs_queue, readers, warc_records_queue, coord, result,
                   total, jobsPut, payloadsPut, writeFailures>>
    /\ UNCHANGED notPipe

\* write_warc_records: take an item; _STOP closes the shard and ends the
\* writer; for a payload rotate if needed, then write and count it, or fail
\* on the write, which is logged
WriterItem(w) ==
    /\ Running
    /\ writers[w].pc \in {"open", "run"}
    /\ warc_records_queue # <<>>
    /\ warc_records_queue' = Tail(warc_records_queue)
    /\ LET item == Head(warc_records_queue)
           wr   == Rotated(Opened(writers[w]), item.size)
       IN  IF item.stop
              THEN /\ writers' = [writers EXCEPT ![w] =
                                      [Opened(@) EXCEPT !.pc = "done"]]
                   /\ UNCHANGED writeFailures
              ELSE \/ /\ writers' = [writers EXCEPT ![w] =
                                        [wr EXCEPT !.size = @ + item.size,
                                                   !.written = @ + 1]]
                      /\ UNCHANGED writeFailures
                   \/ /\ writers' = [writers EXCEPT ![w] = wr]
                      /\ writeFailures' = writeFailures + 1
    /\ UNCHANGED <<cdx_paths, record_limit, max_file_size, nres, gen,
                   range_jobs_queue, readers, coord, result, total,
                   jobsPut, payloadsPut>>
    /\ UNCHANGED notPipe

RECURSIVE SumWritten(_)
SumWritten(n) == IF n = 0 THEN 0 ELSE writers[n].written + SumWritten(n - 1)

TotalBug == writers[1].written
\* writers_records = sum([result['stats']['total_records'] for result in writers_results])
Total == SumWritten(NumWriters)

\* _run_filter_pipeline: every awaited task has returned
PipelineReturn ==
    /\ Running
    /\ gen.pc = "done"
    /\ AllReadersDone
    /\ \A w \in Writers : writers[w].pc = "done"
    /\ coord.pc = "done"
    /\ result' = "returned"
    /\ total' = Total
    /\ UNCHANGED <<cdx_paths, record_limit, max_file_size, nres, gen,
                   range_jobs_queue, readers, warc_records_queue, coord, writers,
                   jobsPut, payloadsPut, writeFailures>>
    /\ UNCHANGED notPipe

\* "await job_generators" re-raises the generator's exception, and
\* "await asyncio.gather(*warc_writers)" that of a writer
PipelineRaise ==
    /\ Running
    /\ \/ gen.pc = "crashed"
       \/ /\ gen.pc = "done"
          /\ AllReadersDone
          /\ \E w \in Writers : writers[w].pc = "failed"
    /\ result' = "raised"
    /\ UNCHANGED <<cdx_paths, record_limit, max_file_size, nres, gen,
                   range_jobs_queue, readers, warc_records_queue, coord, writers,
                   total, jobsPut, payloadsPut, writeFailures>>
    /\ UNCHANGED notPipe

NextPipe ==
    \/ GenPutJob
    \/ GenFileEnd
    \/ GenPutStop
    \/ GenFinish
    \/ \E r \in Readers : ReaderGet(r)
    \/ \E r \in Readers : ReaderPut(r)
    \/ \E r \in Readers : ReaderPutFails(r)
    \/ CoordObserve
    \/ CoordPutStop
    \/ \E w \in Writers : WriterOpenFails(w)
    \/ \E w \in Writers : WriterItem(w)
    \/ PipelineReturn
    \/ PipelineRaise

SpecPipe == InitPipe /\ [][NextPipe]_vars

-----------------------------------------------------------------------------
(* Claims about the pipeline *)

\* no item that is not a STOP sits behind a STOP in queue q
StopsLast(q) ==
    \A i \in 1..Len(q) : \A j \in 1..Len(q) : (i < j /\ q[i].stop) => q[j].stop

\* C6: the job generator posts exactly R STOP sentinels (R = number of
\* readers) onto the jobs queue, after the last job, on every way its input
\* can end: once it has ended it has posted R of them, it never posts more,
\* it puts no job once it has posted the first, and no job is queued behind
\* a STOP.
C6_ReaderStops ==
    /\ gen.stops <= NumReaders
    /\ gen.pc \in {"done", "crashed"} => gen.stops = NumReaders
    /\ gen.stops > 0 => gen.pc \in {"stops", "done", "crashed"}
    /\ StopsLast(range_jobs_queue)

\* the generator has ended after a CDX file that failed to read, with jobs
\* put before it did, and on the record limit
C6_Witness ==
    /\ gen.pc = "done"
    /\ gen.stops = NumReaders
    /\ \E f \in 1..Len(cdx_paths) : cdx_paths[f].fails /\ cdx_paths[f].lines >= 1
    /\ LimitReached(gen.count)
    /\ jobsPut >= 2

\* C7: exactly W STOP sentinels (W = number of writers) are posted onto the
\* records queue, the first of them only after every reader has returned,
\* and no RangePayload is ever queued behind a STOP.
C7_WriterStops ==
    /\ coord.posted <= NumWriters
    /\ coord.pc = "done" => coord.posted = NumWriters
    /\ coord.posted > 0 => \A r \in Readers : readers[r].pc = "done"
    /\ StopsLast(warc_records_queue)

\* the coordinator has posted its W sentinels after readers put payloads
C7_Witness ==
    /\ coord.pc = "done"
    /\ coord.posted = NumWriters
    /\ payloadsPut >= 2
    /\ warc_records_queue # <<>>

\* C8 as stated: the total a run returns equals the number of RangePayloads
\* the readers put on the records queue.
C8_TotalIsPayloadsPut == result = "returned" => total = payloadsPut

\* C8, amended: the total a run returns, the sum over all writers of the
\* records each reports written, equals the number of RangePayloads the
\* readers put on the records queue minus those a writer failed on.
C8_TotalIsPayloadsWritten ==
    result = "returned" => total = payloadsPut - writeFailures

\* a run has returned in which both writers wrote and one write failed
C8_Witness ==
    /\ result = "returned"
    /\ \A w \in Writers : writers[w].written >= 1
    /\ writeFailures >= 1

RECURSIVE SumRecords(_)
\* response and resource records in the shards of writers 1..n
SumRecords(n) ==
    IF n = 0 THEN 0 ELSE writers[n].written + writers[n].res + SumRecords(n - 1)

RECURSIVE SumShards(_)
\* shards produced by writers 1..n
SumShards(n) == IF n = 0 THEN 0 ELSE writers[n].seq + SumShards(n - 1)

\* C9: with record_limit = L > 0, the number of records written to the
\* output is at most L plus (resource records x shards produced).
C9_RecordLimit ==
    record_limit > 0 =>
        SumRecords(NumWriters) <= record_limit + nres * SumShards(NumWriters)

-----------------------------------------------------------------------------
(* S3 shard writer: one S3ShardWriter object and the multipart upload it     *)
(* manages. Its caller (create_new_writer_with_header, write_warc_records,   *)
(* rotate_files) starts it, writes to it and closes it; a write that raised  *)
(* is logged by the caller, which goes on. An S3 call is a call through      *)
(* with_retries: it returns, or raises once its attempts are used up.        *)

RECURSIVE SumParts(_)
\* the bytes of the parts in a list of parts
SumParts(ps) == IF ps = <<>> THEN 0 ELSE Head(ps).size + SumParts(Tail(ps))

InitS3 ==
    /\ ParkedBut("s3")
    /\ upload_id = 0
    /\ part_number = 1
    /\ parts = <<>>
    /\ buffer = 0
    /\ spc = "new"
    /\ closeErr = "none"
    /\ raised = "none"
    /\ mpu = [created |-> FALSE, completed |-> FALSE, listed |-> <<>>,
              aborts |-> 0, abortFailed |-> FALSE]
    /\ bytesWritten = 0
    /\ nwrites = 0
    /\ nfailures = 0

\* an S3 call may still fail
MayFail == nfailures < MaxFailures

\* start: mpu_create returns the UploadId, or raises and the caller drops the
\* writer object
Start ==
    /\ spc = "new"
    /\ \/ /\ upload_id' = 1
          /\ mpu' = [mpu EXCEPT !.created = TRUE]
          /\ spc' = "ready"
          /\ UNCHANGED <<raised, nfailures>>
       \/ /\ MayFail
          /\ nfailures' = nfailures + 1
          /\ raised' = "create"
          /\ spc' = "dropped"
          /\ UNCHANGED <<upload_id, mpu>>
    /\ UNCHANGED <<part_number, parts, buffer, closeErr, bytesWritten, nwrites>>
    /\ UNCHANGED notS3

\* write: self.buffer.extend(data), then _flush_full_parts
Write ==
    /\ spc = "ready"
    /\ nwrites < MaxWrites
    /\ \E n \in 1..MaxWriteSize :
        /\ buffer' = buffer + n
        /\ bytesWritten' = bytesWritten + n
    /\ nwrites' = nwrites + 1
    /\ raised' = "none"
    /\ spc' = "flush"
    /\ UNCHANGED <<upload_id, part_number, parts, closeErr, mpu, nfailures>>
    /\ UNCHANGED notS3

NewPartBug(n) == [number |-> 1, size |-> n]
\* the part appended to self.parts after an upload of n bytes
NewPart(n) == [number |-> part_number, size |-> n]

\* _flush_full_parts, one turn of its loop: the chunk is cut off the buffer,
\* then uploaded; if the upload raises, write raises
FlushPart ==
    /\ spc = "flush"
    /\ buffer >= MinPartSize
    /\ buffer' = buffer - MinPartSize
    /\ \/ /\ parts' = Append(parts, NewPart(MinPartSize))
          /\ part_number' = part_number + 1
          /\ UNCHANGED <<spc, raised, nfailures>>
       \/ /\ MayFail
          /\ nfailures' = nfailures + 1
          /\ raised' = "upload_part"
          /\ spc' = "ready"
          /\ UNCHANGED <<parts, part_number>>
    /\ UNCHANGED <<upload_id, closeErr, mpu, bytesWritten, nwrites>>
    /\ UNCHANGED notS3

\* _flush_full_parts: the loop ends and write returns
FlushDone ==
    /\ spc = "flush"
    /\ buffer < MinPartSize
    /\ spc' = "ready"
    /\ UNCHANGED <<upload_id, part_number, parts, buffer, closeErr, raised, mpu,
                   bytesWritten, nwrites, nfailures>>
    /\ UNCHANGED notS3

\* close, "if self.buffer": upload what is left as the last part
CloseTail ==
    /\ spc = "ready"
    /\ raised' = "none"
    /\ IF buffer > 0
          THEN \/ /\ parts' = Append(parts, NewPart(buffer))
                  /\ part_number' = part_number + 1
                  /\ buffer' = 0
                  /\ spc' = "close_complete"
                  /\ UNCHANGED <<closeErr, nfailures>>
               \/ /\ MayFail
                  /\ nfailures' = nfailures + 1
                  /\ closeErr' = "upload_part"
                  /\ spc' = "close_except"
                  /\ UNCHANGED <<parts, part_number, buffer>>
          ELSE /\ spc' = "close_complete"
               /\ UNCHANGED <<parts, part_number, buffer, closeErr, nfailures>>
    /\ UNCHANGED <<upload_id, mpu, bytesWritten, nwrites>>
    /\ UNCHANGED notS3

\* close, "if self.parts": complete the upload with the parts listed; then
\* close returns
CloseComplete ==
    /\ spc = "close_complete"
    /\ IF parts # <<>>
          THEN \/ /\ mpu' = [mpu EXCEPT !.completed = TRUE, !.listed = parts]
                  /\ spc' = "closed"
                  /\ UNCHANGED <<closeErr, nfailures>>
               \/ /\ MayFail
                  /\ nfailures' = nfailures + 1
                  /\ closeErr' = "complete"
                  /\ spc' = "close_except"
                  /\ UNCHANGED mpu
          ELSE /\ spc' = "closed"
               /\ UNCHANGED <<mpu, closeErr, nfailures>>
    /\ UNCHANGED <<upload_id, part_number, parts, buffer, raised, bytesWritten,
                   nwrites>>
    /\ UNCHANGED notS3

ReraiseBug(orig, abortRaised) == IF abortRaised THEN "abort" ELSE orig
\* mpu_abort swallows its own exception; the bare raise re-raises the one caught
Reraise(orig, abortRaised) == orig

\* close, "except Exception": attempt the abort, then re-raise
CloseExcept ==
    /\ spc = "close_except"
    /\ \E abortRaised \in {FALSE} \cup {b \in {TRUE} : MayFail /\ upload_id # 0} :
        /\ mpu' = IF upload_id # 0
                     THEN [mpu EXCEPT !.aborts = @ + 1, !.abortFailed = abortRaised]
                     ELSE mpu
        /\ nfailures' = IF abortRaised THEN nfailures + 1 ELSE nfailures
        /\ raised' = Reraise(closeErr, abortRaised)
    /\ spc' = "close_raised"
    /\ UNCHANGED <<upload_id, part_number, parts, buffer, closeErr, bytesWritten,
                   nwrites>>
    /\ UNCHANGED notS3

NextS3 ==
    \/ Start
    \/ Write
    \/ FlushPart
    \/ FlushDone
    \/ CloseTail
    \/ CloseComplete
    \/ CloseExcept

SpecS3 == InitS3 /\ [][NextS3]_vars

-----------------------------------------------------------------------------
(* Claims about the S3 shard writer *)

\* C13: after CompleteMultipartUpload the sum of the sizes of the parts
\* listed in the completion equals the total number of bytes passed to write
\* on that shard.
C13_PartsSumToWritten == mpu.completed => SumParts(mpu.listed) = bytesWritten

\* C14: if a step of close raises (the upload of the tail part or the
\* completion), close attempts one AbortMultipartUpload for the UploadId and
\* then re-raises the original exception, also when the abort itself fails;
\* and close raises only then.
C14_AbortThenReraise ==
    /\ spc = "close_raised" =>
          /\ closeErr \in {"upload_part", "complete"}
          /\ raised = closeErr
          /\ mpu.aborts = 1
          /\ ~mpu.completed
    /\ spc = "closed" => closeErr = "none" /\ raised = "none" /\ mpu.aborts = 0

\* the completion raised, the abort raised too, and close has raised
C14_Witness ==
    /\ spc = "close_raised"
    /\ closeErr = "complete"
    /\ mpu.abortFailed
    /\ bytesWritten >= MinPartSize

\* C15: no upload is leaked: once close has returned or raised, the upload
\* that start created has been completed or has had an abort attempted.
C15_NoLeak ==
    (spc \in {"closed", "close_raised"} /\ mpu.created) =>
        (mpu.completed \/ mpu.aborts > 0)

-----------------------------------------------------------------------------
(* One writer task and the shards it creates on S3: write_warc_records with  *)
(* create_new_writer_with_header, write_resource_records and rotate_files,   *)
(* over S3ShardWriter. A byte is modelled by the record it belongs to.       *)

\* n bytes of a record of the given type, linked to the warcinfo record id
Data(type, id, n) == [i \in 1..n |-> <<type, id>>]

\* S3ShardWriter.__init__ and start; nrec counts the response records
\* passed to write
NewShard(sequence, id) ==
    [seq |-> sequence, id |-> id, open |-> TRUE, buffer |-> <<>>,
     stored |-> <<>>, nparts |-> 0, completed |-> FALSE, nrec |-> 0]

RECURSIVE FlushOutcomes(_, _)
\* _flush_full_parts: each chunk is cut off the buffer and uploaded; an upload
\* may raise (canFail), and S3 rejects a part for an upload that is over
FlushOutcomes(sh, canFail) ==
    IF Len(sh.buffer) < MinPartSize
       THEN {[sh |-> sh, ok |-> TRUE]}
       ELSE LET chunk == SubSeq(sh.buffer, 1, MinPartSize)
                rest  == SubSeq(sh.buffer, MinPartSize + 1, Len(sh.buffer))
                lost  == {[sh |-> [sh EXCEPT !.buffer = rest], ok |-> FALSE]}
            IN  IF ~sh.open THEN lost
                ELSE FlushOutcomes([sh EXCEPT !.buffer = rest,
                                              !.stored = @ \o chunk,
                                              !.nparts = @ + 1], canFail)
                     \cup (IF canFail THEN lost ELSE {})

\* S3ShardWriter.write
WriteOutcomes(sh, data, canFail) ==
    FlushOutcomes([sh EXCEPT !.buffer = @ \o data], canFail)

\* S3ShardWriter.close: upload the tail, complete if there are parts; if a
\* step raises, abort and re-raise. Either way the upload is over.
CloseOutcomes(sh, canFail) ==
    LET over   == [sh EXCEPT !.open = FALSE]
        failed == {[sh |-> over, ok |-> FALSE]}
        tailed == [over EXCEPT !.stored = @ \o sh.buffer, !.buffer = <<>>,
                               !.nparts = @ + (IF sh.buffer = <<>> THEN 0 ELSE 1)]
        done   == {[sh |-> [tailed EXCEPT !.completed = (tailed.nparts > 0)],
                    ok |-> TRUE]}
    IN  IF sh.open
           THEN done \cup (IF canFail /\ tailed.nparts > 0 THEN failed ELSE {})
           ELSE IF tailed.nparts > 0 THEN failed ELSE {[sh |-> sh, ok |-> TRUE]}

RECURSIVE ResourceOutcomes(_, _, _)
\* write_resource_records: k more resource records, each linked to the
\* warcinfo id of the shard they are written to
ResourceOutcomes(sh, k, canFail) ==
    IF k = 0 THEN {[sh |-> sh, ok |-> TRUE]}
    ELSE UNION {IF o.ok THEN ResourceOutcomes(o.sh, k - 1, canFail) ELSE {o} :
                   o \in WriteOutcomes(sh, Data("resource", sh.id, ResourceSize), canFail)}

\* create_new_writer_with_header (start, then the warcinfo record) followed
\* by write_resource_records, for a shard that did start
OpenOutcomes(sequence, id, canFail) ==
    UNION {IF o.ok THEN ResourceOutcomes(o.sh, nres, canFail) ELSE {o} :
              o \in WriteOutcomes(NewShard(sequence, id),
                                  Data("warcinfo", id, HeaderSize), canFail)}

WMayFail == wfailures < MaxFailures

\* wfailures after a call with outcome o
Failures(o) == IF o.ok THEN wfailures ELSE wfailures + 1

InitWriter ==
    /\ IterParked
    /\ HttpParked
    /\ S3Parked
    /\ CcParked
    /\ MatchParked
    /\ TimeParked
    /\ GetParked
    /\ FltParked
    /\ CfParked
    /\ LwParked
    /\ RtParked
    /\ PipeTasksParked
    /\ max_file_size \in {0, FileSizeLimit}
    /\ nres \in 0..MaxResources
    /\ shards = <<>>
    /\ writer = 0
    /\ current_file_sequence = 1
    /\ current_file_size = 0
    /\ added_byte_size = 0
    /\ wpc = "create"
    /\ nitems = 0
    /\ wfailures = 0

\* write_warc_records up to its loop: the first shard with its header and
\* resource records; an exception here ends the task
WCreate ==
    /\ wpc = "create"
    /\ \/ /\ WMayFail
          /\ wfailures' = wfailures + 1
          /\ wpc' = "raised"
          /\ UNCHANGED <<shards, writer, current_file_size>>
       \/ \E o \in OpenOutcomes(current_file_sequence, Len(shards) + 1, WMayFail) :
             /\ shards' = Append(shards, o.sh)
             /\ wfailures' = Failures(o)
             /\ IF o.ok
                   THEN /\ writer' = Len(shards')
                        /\ current_file_size' = NewShardSize(nres)
                        /\ wpc' = "loop"
                   ELSE /\ wpc' = "raised"
                        /\ UNCHANGED <<writer, current_file_size>>
    /\ UNCHANGED <<current_file_sequence, added_byte_size, nitems>>
    /\ UNCHANGED notWtr

\* "item = await warc_records_queue.get()": _STOP, or a payload, for which
\* rotate_files decides first
WTake ==
    /\ wpc = "loop"
    /\ \/ /\ wpc' = "final_close"
          /\ UNCHANGED <<added_byte_size, nitems>>
       \/ /\ nitems < MaxItems
          /\ nitems' = nitems + 1
          /\ \E n \in 1..MaxItemSize :
                /\ added_byte_size' = n
                /\ wpc' = IF RotateNeeded(current_file_size, n)
                             THEN "rotate_close" ELSE "write"
    /\ UNCHANGED <<shards, writer, current_file_sequence, current_file_size,
                   wfailures>>
    /\ UNCHANGED notWtr

\* rotate_files, "await writer.close()"; if it raises, write_warc_records logs
\* it and takes the next item, its variables as they were
WRotateClose ==
    /\ wpc = "rotate_close"
    /\ \E o \in CloseOutcomes(shards[writer], WMayFail) :
          /\ shards' = [shards EXCEPT ![writer] = o.sh]
          /\ wfailures' = Failures(o)
          /\ wpc' = IF o.ok THEN "rotate_create" ELSE "loop"
    /\ UNCHANGED <<writer, current_file_sequence, current_file_size,
                   added_byte_size, nitems>>
    /\ UNCHANGED notWtr

\* rotate_files: the next shard with its header and resource records; only
\* when all of it succeeded does write_warc_records get the new writer,
\* sequence and size
WRotateCreate ==
    /\ wpc = "rotate_create"
    /\ \/ /\ WMayFail
          /\ wfailures' = wfailures + 1
          /\ wpc' = "loop"
          /\ UNCHANGED <<shards, writer, current_file_sequence, current_file_size>>
       \/ \E o \in OpenOutcomes(current_file_sequence + 1, Len(shards) + 1, WMayFail) :
             /\ shards' = Append(shards, o.sh)
             /\ wfailures' = Failures(o)
             /\ IF o.ok
                   THEN /\ writer' = Len(shards')
                        /\ current_file_sequence' = current_file_sequence + 1
                        /\ current_file_size' = NewShardSize(nres)
                        /\ wpc' = "write"
                   ELSE /\ wpc' = "loop"
                        /\ UNCHANGED <<writer, current_file_sequence,
                                       current_file_size>>
    /\ UNCHANGED <<added_byte_size, nitems>>
    /\ UNCHANGED notWtr

\* "await writer.write(item.data)", then the size is counted; an exception
\* is logged
WWrite ==
    /\ wpc = "write"
    /\ \E o \in WriteOutcomes(shards[writer],
                              Data("response", 0, added_byte_size), WMayFail) :
          /\ shards' = [shards EXCEPT ![writer] = [o.sh EXCEPT !.nrec = @ + 1]]
          /\ wfailures' = Failures(o)
          /\ current_file_size' = IF o.ok THEN current_file_size + added_byte_size
                                          ELSE current_file_size
    /\ wpc' = "loop"
    /\ UNCHANGED <<writer, current_file_sequence, added_byte_size, nitems>>
    /\ UNCHANGED notWtr

\* "finally: await writer.close()"
WFinalClose ==
    /\ wpc = "final_close"
    /\ \E o \in CloseOutcomes(shards[writer], WMayFail) :
          /\ shards' = [shards EXCEPT ![writer] = o.sh]
          /\ wfailures' = Failures(o)
          /\ wpc' = IF o.ok THEN "returned" ELSE "raised"
    /\ UNCHANGED <<writer, current_file_sequence, current_file_size,
                   added_byte_size, nitems>>
    /\ UNCHANGED notWtr

NextWriter ==
    \/ WCreate
    \/ WTake
    \/ WRotateClose
    \/ WRotateCreate
    \/ WWrite
    \/ WFinalClose

SpecWriter == InitWriter /\ [][NextWriter]_vars

-----------------------------------------------------------------------------
(* Claims about a writer and its shards *)

\* the shards that are open
OpenShards == {i \in 1..Len(shards) : shards[i].open}

\* C11: from its first shard until it exits a writer has exactly one open
\* shard: never two, and whenever it waits for its next item the shard it
\* writes to is the open one; the shards' sequence numbers are 1, 2, 3, ...
\* in the order of their creation, none repeated.
C11_OneOpenShard ==
    /\ Cardinality(OpenShards) <= 1
    /\ wpc \in {"loop", "write", "final_close"} => OpenShards = {writer}
    /\ \A i \in 1..Len(shards) : shards[i].seq = i

\* the bytes of a shard are the warcinfo record, then the resource records,
\* each linked to this shard's warcinfo id, then response bytes only
WellFormed(bytes, id) ==
    LET h == HeaderSize
        r == nres * ResourceSize
    IN  /\ Len(bytes) >= h + r
        /\ \A i \in 1..Len(bytes) :
              bytes[i] = IF i <= h THEN <<"warcinfo", id>>
                         ELSE IF i <= h + r THEN <<"resource", id>>
                         ELSE <<"response", 0>>

\* C12: in every shard a writer produces, the warcinfo record comes first,
\* the configured resource records follow immediately, before any response
\* record, each linked to that shard's warcinfo id.
C12_ShardLayout ==
    \A i \in 1..Len(shards) :
        shards[i].completed => WellFormed(shards[i].stored, shards[i].id)

-----------------------------------------------------------------------------
(* Timestamps and times (cdx_toolkit/timeutils.py) *)

\* A CDX timestamp is a string of up to 14 digits, YYYYmmddHHMMSS: here the
\* sequence of its digits.  A time is a number of seconds since
\* 1970-01-01T00:00:00Z: here <<d, s>> for d * 86400 + s with s in 0..86399.
None == <<-1>>

TIMESTAMP_LOW  == <<1, 9, 7, 8, 0, 1, 0, 1, 0, 0, 0, 0, 0, 0>>
TIMESTAMP_HIGH == <<2, 9, 9, 9, 1, 2, 3, 1, 2, 3, 5, 9, 5, 9>>

\* days_in_month[m] of the code is days_in_month[m + 1] here
days_in_month == <<0, 31, 28, 31, 30, 31, 30, 31, 31, 30, 31, 30, 31>>

\* int(digits)
RECURSIVE int(_)
int(s) ==
    IF s = <<>> THEN 0 ELSE 10 * int(SubSeq(s, 1, Len(s) - 1)) + s[Len(s)]

\* str(n)
RECURSIVE str(_)
str(n) == IF n < 10 THEN <<n>> ELSE str(n \div 10) \o <<n % 10>>

\* n in at least w digits, zeros in front
RECURSIVE ZeroPadded(_, _)
ZeroPadded(n, w) ==
    IF Len(str(n)) >= w THEN str(n) ELSE <<0>> \o ZeroPadded(n, w - 1)

pad_timestamp(ts) == ts \o SubSeq(TIMESTAMP_LOW, Len(ts) + 1, 14)

\* the day is replaced by the table's, whether it was padded or given
pad_timestamp_up(ts) ==
    LET padded == ts \o SubSeq(TIMESTAMP_HIGH, Len(ts) + 1, 14)
        month == SubSeq(padded, 5, 6)
    IN  SubSeq(padded, 1, 6) \o str(days_in_month[int(month) + 1])
        \o SubSeq(padded, 9, Len(padded))

\* the proleptic Gregorian calendar of datetime
IsLeap(y) == (y % 4 = 0 /\ y % 100 # 0) \/ y % 400 = 0

MonthLength(y, m) == IF m = 2 /\ IsLeap(y) THEN 29 ELSE days_in_month[m + 1]

LeapsBefore(y) == (y - 1) \div 4 - (y - 1) \div 100 + (y - 1) \div 400

\* days from 1970-01-01 to the first of January of year y
DaysBeforeYear(y) == 365 * (y - 1970) + LeapsBefore(y) - LeapsBefore(1970)

RECURSIVE DaysBeforeMonth(_, _)
DaysBeforeMonth(y, m) ==
    IF m = 1 THEN 0 ELSE DaysBeforeMonth(y, m - 1) + MonthLength(y, m - 1)

\* the six fields %Y %m %d %H %M %S of a string of 14 digits
Fields(p) ==
    <<int(SubSeq(p, 1, 4)), int(SubSeq(p, 5, 6)), int(SubSeq(p, 7, 8)),
      int(SubSeq(p, 9, 10)), int(SubSeq(p, 11, 12)), int(SubSeq(p, 13, 14))>>

\* strptime(padded, '%Y%m%d%H%M%S') and datetime accept the string: all of
\* it is converted, which takes two digits for every field after the year
ValidTimestamp(ts) ==
    LET p == pad_timestamp(ts)
        f == Fields(p)
    IN  /\ Len(p) = 14
        /\ f[1] \in 1..9999
        /\ f[2] \in 1..12
        /\ f[3] \in 1..MonthLength(f[1], f[2])
        /\ f[4] \in 0..23 /\ f[5] \in 0..59 /\ f[6] \in 0..59

\* strptime(padded, TIMESTAMP).replace(tzinfo=utc).timestamp()
timestamp_to_time(ts) ==
    LET f == Fields(pad_timestamp(ts))
    IN  <<DaysBeforeYear(f[1]) + DaysBeforeMonth(f[1], f[2]) + f[3] - 1,
          f[4] * 3600 + f[5] * 60 + f[6]>>

\* t + n for a time t and a number of seconds n
TimeShift(t, n) ==
    LET seconds == t[2] + n
    IN  <<t[1] + seconds \div 86400, seconds % 86400>>

\* a < b and a <= b for times
TimeLess(a, b) == a[1] < b[1] \/ (a[1] = b[1] /\ a[2] < b[2])
TimeLeq(a, b) == a = b \/ TimeLess(a, b)

\* the year of day number days
YearOfDay(days) ==
    LET a == 1970 + days \div 366
        b == 1970 + days \div 365
    IN  CHOOSE y \in (Min(a, b) - 1)..(Max(a, b) + 1) :
            DaysBeforeYear(y) <= days /\ days < DaysBeforeYear(y + 1)

\* strftime('%Y'): four digits, or on platforms whose C library does not pad
\* the year (glibc) the digits the year has
FormatYear(y) == IF year_padded THEN ZeroPadded(y, 4) ELSE str(y)

\* datetime.fromtimestamp(t, tz=utc).strftime(TIMESTAMP)
time_to_timestamp(t) ==
    LET days == t[1]
        secs == t[2]
        y == YearOfDay(days)
        yday == days - DaysBeforeYear(y)
        m == CHOOSE mm \in 1..12 :
                 /\ DaysBeforeMonth(y, mm) <= yday
                 /\ yday < DaysBeforeMonth(y, mm) + MonthLength(y, mm)
    IN  FormatYear(y) \o ZeroPadded(m, 2)
        \o ZeroPadded(yday - DaysBeforeMonth(y, m) + 1, 2)
        \o ZeroPadded(secs \div 3600, 2) \o ZeroPadded((secs % 3600) \div 60, 2)
        \o ZeroPadded(secs % 60, 2)

\* strptime(cc + '-0', '%Y-%W-%w'): the Sunday that ends week w of year y,
\* weeks starting on Monday and week 0 being the days before the first Monday
cc_index_to_time(cc) ==
    LET y == cc[1]
        w == cc[2]
        first_weekday == (DaysBeforeYear(y) + 3) % 7    \* Monday is 0
        week_0_length == (7 - first_weekday) % 7
        julian == IF w = 0 THEN 1 + 6 - first_weekday
                  ELSE 1 + week_0_length + 7 * (w - 1) + 6
    IN  <<DaysBeforeYear(y) + julian - 1, 0>>

-----------------------------------------------------------------------------
(* Common Crawl defaults (cdx_toolkit/commoncrawl.py) *)

Years == FirstYear .. (FirstYear + NumYears - 1)
MonthInputs == {1, 3, 12}
DayInputs == {1, 30}

\* the timestamps a caller passes: a year, a year and month, or a date
TimestampInputs ==
    {ZeroPadded(y, 4) : y \in Years}
    \cup {ZeroPadded(y, 4) \o ZeroPadded(m, 2) : y \in Years, m \in MonthInputs}
    \cup {ZeroPadded(y, 4) \o ZeroPadded(m, 2) \o ZeroPadded(d, 2) :
              y \in Years, m \in MonthInputs, d \in DayInputs}

\* the value of now the tests pass, in the last of the years
NowInputs ==
    {timestamp_to_time(ZeroPadded(FirstYear + NumYears - 1, 4)
                       \o <<0, 4, 2, 9, 0, 0, 3, 8, 5, 9>>)}

three_months_bug == 3 * 31 * 86400

three_months == 3 * 30 * 86400

year == 365 * 86400

\* params after apply_cc_defaults(params, crawl_present, now)
apply_cc_defaults(p, crawl, nw) ==
    IF p.closest # None
    THEN LET closest_t == timestamp_to_time(p.closest)
             p1 == IF p.from_ts = None
                   THEN [p EXCEPT !.from_ts =
                            time_to_timestamp(TimeShift(closest_t, -three_months))]
                   ELSE p
         IN  IF p1.to = None
             THEN [p1 EXCEPT !.to = time_to_timestamp(TimeShift(closest_t, three_months))]
             ELSE p1
    ELSE IF ~crawl
    THEN IF p.from_ts # None THEN p
         ELSE IF p.to # None
         THEN [p EXCEPT !.from_ts =
                  time_to_timestamp(
                      TimeShift(timestamp_to_time(pad_timestamp_up(p.to)),
                                -year))]
         ELSE [p EXCEPT !.from_ts = time_to_timestamp(TimeShift(nw, -year))]
    ELSE p

InitDefaults ==
    /\ ParkedBut("cc")
    /\ params0 \in [closest : TimestampInputs \cup {None},
                    from_ts : TimestampInputs \cup {None},
                    to : TimestampInputs \cup {None}]
    /\ params = params0
    /\ crawl_present \in BOOLEAN
    /\ cc_now \in NowInputs
    /\ raw_index_list = <<>>
    /\ cc_sort = "none"
    /\ from_ts_t = NoTime
    /\ to_t = NoTime
    /\ index_list = <<>>
    /\ cpc = "call"

ApplyDefaults ==
    /\ cpc = "call"
    /\ params' = apply_cc_defaults(params, crawl_present, cc_now)
    /\ cpc' = "returned"
    /\ UNCHANGED <<params0, crawl_present, cc_now, raw_index_list, cc_sort,
                   from_ts_t, to_t, index_list>>
    /\ UNCHANGED notCc

NextDefaults == ApplyDefaults

SpecDefaults == InitDefaults /\ [][NextDefaults]_vars

-----------------------------------------------------------------------------
(* Claims about the Common Crawl defaults *)

C17_CrawlNoChange ==
    (cpc = "returned" /\ crawl_present) => params = params0

-----------------------------------------------------------------------------
(* Common Crawl endpoint selection by time window (cdx_toolkit/commoncrawl.py) *)

\* An endpoint .../CC-MAIN-YYYY-WW-index is the pair <<YYYY, WW>>; the order
\* of the names is the order of the pairs.
CrawlWeeks == {13, 39}

NameLess(a, b) == a[1] < b[1] \/ (a[1] = b[1] /\ a[2] < b[2])

\* get_cc_endpoints: endpoints = sorted(endpoints)
RECURSIVE SortedByName(_)
SortedByName(S) ==
    IF S = {} THEN <<>>
    ELSE LET first == CHOOSE a \in S : \A b \in S \ {a} : NameLess(a, b)
         IN  <<first>> \o SortedByName(S \ {first})

\* the crawls there are: the first NumCrawls of the years
AllCrawls == SortedByName({<<y, w>> : y \in Years, w \in CrawlWeeks})

CrawlPool == {AllCrawls[i] : i \in 1..Min(NumCrawls, Len(AllCrawls))}

\* the timestamps of a window: a year, or a year and month
WindowInputs == {ts \in TimestampInputs : Len(ts) <= 6}

RECURSIVE Insert(_, _)
Insert(s, x) ==
    IF s = <<>> THEN <<x>>
    ELSE IF TimeLess(x, Head(s)) THEN <<x>> \o s
    ELSE <<Head(s)>> \o Insert(Tail(s), x)

RECURSIVE sorted(_)
sorted(s) == IF s = <<>> THEN <<>> ELSE Insert(sorted(Tail(s)), Head(s))

\* cc_map (the endpoint of a time; a later endpoint of the same time replaces
\* an earlier one) and sorted(cc_times)
make_cc_maps(raw) ==
    LET t(i) == cc_index_to_time(raw[i])
    IN  [cc_map |-> [x \in {t(i) : i \in DOMAIN raw} |->
                        raw[CHOOSE i \in DOMAIN raw :
                               /\ t(i) = x
                               /\ \A j \in DOMAIN raw : t(j) = x => j <= i]],
         cc_times |-> sorted([i \in DOMAIN raw |-> t(i)])]

\* the window of the caller's time specification; ok is false where the code
\* raises ValueError('Cannot happen')
check_cc_from_to(p) ==
    IF p.closest # None
    THEN IF p.from_ts = None \/ p.to = None
         THEN [ok |-> FALSE, from_ts_t |-> NoTime, to_t |-> NoTime]
         ELSE [ok |-> TRUE, from_ts_t |-> timestamp_to_time(p.from_ts),
               to_t |-> timestamp_to_time(p.to)]
    ELSE IF p.to # None
    THEN IF p.from_ts = None
         THEN [ok |-> FALSE, from_ts_t |-> NoTime, to_t |-> NoTime]
         ELSE [ok |-> TRUE, from_ts_t |-> timestamp_to_time(p.from_ts),
               to_t |-> timestamp_to_time(pad_timestamp_up(p.to))]
    ELSE IF p.from_ts = None
         THEN [ok |-> FALSE, from_ts_t |-> NoTime, to_t |-> NoTime]
         ELSE [ok |-> TRUE, from_ts_t |-> timestamp_to_time(p.from_ts),
               to_t |-> NoTime]

\* bisect.bisect_left / bisect_right on a sorted list
bisect_left(a, x) == Cardinality({i \in DOMAIN a : TimeLess(a[i], x)})
bisect_right(a, x) == Cardinality({i \in DOMAIN a : TimeLeq(a[i], x)})

\* s[start:end] of Python: a negative index counts from the end
SliceIndex(n, i) == IF i < 0 THEN Max(0, i + n) ELSE Min(i, n)

PySlice(s, start, end) ==
    LET a == SliceIndex(Len(s), start)
        b == SliceIndex(Len(s), end)
    IN  IF a >= b THEN <<>> ELSE SubSeq(s, a + 1, b)

clamp_start_bug(start) == start

\* start = max(0, start)
clamp_start(start) == Max(0, start)

bisect_cc(cc_map, cc_times, from_t, to) ==
    LET start == clamp_start(bisect_left(cc_times, from_t) - 1)
        end == IF to # NoTime
               THEN Min(bisect_right(cc_times, to) + 1, Len(cc_times))
               ELSE Len(cc_times)
        slice == PySlice(cc_times, start, end)
    IN  IF slice = <<>> THEN <<>>
        ELSE [i \in DOMAIN slice |-> cc_map[slice[i]]]

reverse_bug(s) == s

\* index_list.reverse()
reverse(s) == [i \in DOMAIN s |-> s[Len(s) + 1 - i]]

\* a query without 'crawl': the selection is by the time window
InitSelect ==
    /\ ParkedBut("cc")
    /\ params0 \in [closest : {None, ZeroPadded(FirstYear, 4)},
                    from_ts : WindowInputs \cup {None},
                    to : WindowInputs \cup {None}]
    /\ params = params0
    /\ crawl_present = FALSE
    /\ cc_now \in NowInputs
    /\ raw_index_list \in {SortedByName(S) : S \in SUBSET CrawlPool}
    /\ cc_sort \in {"ascending", "mixed", "invalid"}
    /\ from_ts_t = NoTime
    /\ to_t = NoTime
    /\ index_list = <<>>
    /\ cpc = "call"

\* filter_cc_endpoints(raw_index_list, cc_sort, params)
FilterEndpoints ==
    /\ cpc = "call"
    /\ LET maps == make_cc_maps(raw_index_list)
           window == check_cc_from_to(params)
           selected == bisect_cc(maps.cc_map, maps.cc_times,
                                 window.from_ts_t, window.to_t)
       IN  IF ~window.ok
           THEN /\ cpc' = "raised"
                /\ UNCHANGED <<params, from_ts_t, to_t, index_list>>
           ELSE /\ from_ts_t' = window.from_ts_t
                /\ to_t' = window.to_t
                /\ params' = [params EXCEPT
                       !.from_ts = time_to_timestamp(window.from_ts_t),
                       !.to = IF window.to_t # NoTime
                              THEN time_to_timestamp(window.to_t) ELSE @]
                /\ IF cc_sort = "ascending"
                   THEN index_list' = selected /\ cpc' = "returned"
                   ELSE IF cc_sort = "mixed"
                   THEN index_list' = reverse(selected) /\ cpc' = "returned"
                   ELSE index_list' = index_list /\ cpc' = "raised"
    /\ UNCHANGED <<params0, crawl_present, cc_now, raw_index_list, cc_sort>>
    /\ UNCHANGED notCc

NextSelect == FilterEndpoints

SpecSelect == InitSelect /\ [][NextSelect]_vars

-----------------------------------------------------------------------------
(* Claims about the endpoint selection *)

\* r is s back to front
IsReverseOf(r, s) ==
    /\ Len(r) = Len(s)
    /\ \A i \in 1..Len(s) : r[i] = s[Len(s) + 1 - i]

Inverted == to_t # NoTime /\ TimeLess(to_t, from_ts_t)

\* the endpoints whose time lies strictly between to and from
Between ==
    Cardinality({i \in DOMAIN raw_index_list :
                    /\ TimeLess(to_t, cc_index_to_time(raw_index_list[i]))
                    /\ TimeLess(cc_index_to_time(raw_index_list[i]),
                                from_ts_t)})

-----------------------------------------------------------------------------
(* Prefix matchers (cdx_toolkit/filter_cdx/matcher.py) *)

\* a string is the sequence of its characters
Alphabet == {"a", "b", " "}

Strings(n) == UNION {[1..k -> Alphabet] : k \in 0..n}

PrefixLists == UNION {[1..k -> Strings(MaxPrefixLen)] : k \in 0..MaxPrefixes}

Texts == Strings(MaxTextLen)

RECURSIVE lstrip(_)
lstrip(s) == IF s # <<>> /\ Head(s) = " " THEN lstrip(Tail(s)) ELSE s

RECURSIVE rstrip(_)
rstrip(s) ==
    IF s # <<>> /\ s[Len(s)] = " " THEN rstrip(SubSeq(s, 1, Len(s) - 1)) ELSE s

\* prefix.strip()
strip(s) == rstrip(lstrip(s))

\* Matcher.validate_prefixes: ok is false where it raises ValueError
validate_prefixes(ps) ==
    LET stripped == [i \in DOMAIN ps |-> strip(ps[i])]
    IN  IF \E i \in DOMAIN ps : Len(stripped[i]) = 0
        THEN [ok |-> FALSE, valid_prefixes |-> <<>>]
        ELSE [ok |-> TRUE, valid_prefixes |-> stripped]

\* A trie node is the string that leads to it from the root (<<>>: the root):
\* children holds the nodes there are besides the root, is_end the nodes
\* whose is_end is True.
TrieNode == [children |-> {}, is_end |-> {}]

EndNodesBug(prefix) == {SubSeq(prefix, 1, k) : k \in 1..Len(prefix)}

\* node.is_end = True, after the loop over the characters of the prefix
EndNodes(prefix) == {prefix}

\* the loop over the characters of one prefix, from node onwards
RECURSIVE AddPrefix(_, _, _, _)
AddPrefix(trie, prefix, node, rest) ==
    IF rest = <<>>
    THEN [trie EXCEPT !.is_end = @ \cup EndNodes(prefix)]
    ELSE LET child == Append(node, Head(rest))
         IN  AddPrefix([trie EXCEPT !.children = @ \cup {child}],
                       prefix, child, Tail(rest))

\* the loop over the prefixes
RECURSIVE AddPrefixes(_, _)
AddPrefixes(trie, ps) ==
    IF ps = <<>> THEN trie
    ELSE AddPrefixes(AddPrefix(trie, Head(ps), <<>>, Head(ps)), Tail(ps))

build_trie(ps) == AddPrefixes(TrieNode, ps)

\* TrieMatcher.matches: the loop over the characters of text, from node onwards
RECURSIVE TrieWalk(_, _, _)
TrieWalk(trie, node, rest) ==
    IF rest = <<>> THEN FALSE
    ELSE LET child == Append(node, Head(rest))
         IN  IF child \notin trie.children THEN FALSE
             ELSE IF child \in trie.is_end THEN TRUE
             ELSE TrieWalk(trie, child, Tail(rest))

trie_matches(trie, t) == TrieWalk(trie, <<>>, t)

\* str.startswith with one prefix
startswith(t, p) == Len(p) <= Len(t) /\ SubSeq(t, 1, Len(p)) = p

\* TupleMatcher.matches: text.startswith(self.prefixes_Tuple)
tuple_matches(ps, t) == \E i \in DOMAIN ps : startswith(t, ps[i])

InitMatch ==
    /\ ParkedBut("match")
    /\ prefixes \in PrefixLists
    /\ root = TrieNode
    /\ prefixes_Tuple = <<>>
    /\ text = <<>>
    /\ trie_result = FALSE
    /\ tuple_result = FALSE
    /\ mpc = "construct"

\* TupleMatcher(prefixes) and TrieMatcher(prefixes)
Construct ==
    /\ mpc = "construct"
    /\ LET v == validate_prefixes(prefixes)
       IN  IF v.ok
           THEN /\ prefixes_Tuple' = v.valid_prefixes
                /\ root' = build_trie(v.valid_prefixes)
                /\ mpc' = "ready"
           ELSE /\ mpc' = "raised"
                /\ UNCHANGED <<prefixes_Tuple, root>>
    /\ UNCHANGED <<prefixes, text, trie_result, tuple_result>>
    /\ UNCHANGED notMatch

\* tuple_matcher.matches(t) and trie_matcher.matches(t); matches changes
\* nothing in a matcher, so one call per pair of matchers is followed
Matches(t) ==
    /\ mpc = "ready"
    /\ text' = t
    /\ tuple_result' = tuple_matches(prefixes_Tuple, t)
    /\ trie_result' = trie_matches(root, t)
    /\ mpc' = "matched"
    /\ UNCHANGED <<prefixes, root, prefixes_Tuple>>
    /\ UNCHANGED notMatch

NextMatch ==
    \/ Construct
    \/ \E t \in Texts : Matches(t)

SpecMatch == InitMatch /\ [][NextMatch]_vars

-----------------------------------------------------------------------------
(* Claims about the matchers *)

\* s is p without the whitespace at its two ends
IsStripOf(s, p) ==
    \E i \in 1..(Len(p) + 1), j \in 0..Len(p) :
        /\ s = SubSeq(p, i, j)
        /\ \A k \in 1..Len(p) : (k < i \/ k > j) => p[k] = " "
        /\ s # <<>> => (s[1] # " " /\ s[Len(s)] # " ")

\* some prefix, its whitespace stripped, is a prefix of t
SomePrefixOf(t) ==
    \E i \in DOMAIN prefixes : \E n \in 0..Len(t) :
        IsStripOf(SubSeq(t, 1, n), prefixes[i])

\* C20: for every list of valid prefixes and every text TrieMatcher.matches
\* and TupleMatcher.matches return the same value, which is true exactly
\* when some prefix, its whitespace stripped, is a prefix of the text.
C20_MatchersAgree ==
    mpc = "matched" =>
        /\ trie_result = tuple_result
        /\ tuple_result = SomePrefixOf(text)

\* a match by the second of two prefixes, one that had whitespace to strip
\* and is shorter than the text
C20_Witness ==
    /\ mpc = "matched"
    /\ trie_result
    /\ Len(prefixes) = 2
    /\ ~startswith(text, prefixes[1])
    /\ Head(prefixes[2]) = " "
    /\ Len(text) > Len(strip(prefixes[2]))

-----------------------------------------------------------------------------
(* Timestamp round trip (cdx_toolkit/timeutils.py) *)

\* full timestamps: recent years and one before the year 1000, days and
\* seconds that exist and that do not
FullInputs ==
    {ZeroPadded(y, 4) \o ZeroPadded(m, 2) \o ZeroPadded(d, 2) \o hms :
        y \in Years \cup {999}, m \in {2, 11}, d \in {28, 29, 30},
        hms \in {<<0, 0, 0, 0, 0, 0>>, <<2, 3, 5, 9, 5, 9>>,
                 <<2, 3, 5, 9, 6, 0>>}}

\* a timestamp of any length up to 14 digits
RoundTripInputs == {SubSeq(f, 1, n) : f \in FullInputs, n \in 0..14}

InitTime ==
    /\ ParkedBut("time")
    /\ year_padded \in BOOLEAN
    /\ ts_in \in RoundTripInputs
    /\ time_out = NoTime
    /\ ts_out = <<>>
    /\ tpc = "call"

\* timestamp_to_time(ts_in): the time, or ValueError
ToTime ==
    /\ tpc = "call"
    /\ IF ValidTimestamp(ts_in)
       THEN time_out' = timestamp_to_time(ts_in) /\ tpc' = "converted"
       ELSE time_out' = time_out /\ tpc' = "raised"
    /\ UNCHANGED <<year_padded, ts_in, ts_out>>
    /\ UNCHANGED notTime

\* time_to_timestamp of the time timestamp_to_time returned
ToTimestamp ==
    /\ tpc = "converted"
    /\ ts_out' = time_to_timestamp(time_out)
    /\ tpc' = "back"
    /\ UNCHANGED <<year_padded, ts_in, time_out>>
    /\ UNCHANGED notTime

NextTime == ToTime \/ ToTimestamp

SpecTime == InitTime /\ [][NextTime]_vars

\* C21: for every timestamp that converts, converting it to a time and back
\* gives its low-padded form.
C21_RoundTrip ==
    tpc = "back" => ts_out = pad_timestamp(ts_in)


(***************************************************************************)
(* One call of myrequests_get and the answers of the server                *)
(* (cdx_toolkit/myrequests.py).  Each action is one turn of the retry loop *)
(* for one kind of answer; SpecHttp above has the timing of the same call. *)
(***************************************************************************)

NotGiven == -1     \* an argument the caller left out

previously_seen_hostnames ==
    {"commoncrawl.s3.amazonaws.com", "data.commoncrawl.org", "web.archive.org"}

Urls == {"http://web.archive.org/cdx", "http://example.com/"}

\* urlparse(url).hostname
hostname(url) ==
    IF url = "http://web.archive.org/cdx" THEN "web.archive.org" ELSE "example.com"

\* dns_fatal as it is called: with the url, not the hostname
dns_fatal(url) == url \notin previously_seen_hostnames

\* what one requests.get gives: a status, or one of the connection
\* exceptions; NameNotKnown is a ConnectionError whose text has
\* 'Name or service not known'
Statuses == {"200", "400", "403", "404", "429", "503"}
ConnectErrors == {"ConnectionError", "NameNotKnown"}

\* the parameter defaults of the signature
raise_error_after_n_errors ==
    IF margs.raise_error_after_n_errors = NotGiven
    THEN RaiseErrorAfterNErrors ELSE margs.raise_error_after_n_errors

raise_warning_after_n_errors ==
    IF margs.raise_warning_after_n_errors = NotGiven
    THEN RaiseWarningAfterNErrors ELSE margs.raise_warning_after_n_errors

GivesUpBug(cdx, status) == status \in {"400", "404"}
\* if cdx and resp.status_code in {400, 404}
GivesUp(cdx, status) == cdx /\ status \in {"400", "404"}

\* if allow404 and resp.status_code == 404
Allows(allow404, status) == allow404 /\ status = "404"

\* the statuses of the catalogue that line 112 retries
RetryStatuses == {"429", "503"}

InitGet ==
    /\ ParkedBut("get")
    /\ margs \in [url : Urls, cdx : BOOLEAN, allow404 : BOOLEAN,
                  raise_error_after_n_errors : {NotGiven} \cup 0..MaxCeiling,
                  raise_warning_after_n_errors : {NotGiven} \cup 0..MaxCeiling]
    /\ mcall = [retries |-> 0, connect_errors |-> 0, got |-> "none",
                retry_sec |-> 2 * MinInterval, slept |-> 0, slept_before |-> 0]
    /\ mlog = <<>>
    /\ mresult = "none"

\* lines 155-162: the response goes back to the caller
Returned(status, log) ==
    /\ mcall' = [mcall EXCEPT !.got = status]
    /\ mlog' = log
    /\ mresult' = "returned"

\* cdx and 400 or 404: debug message, leave the loop, return the response
GiveUp ==
    /\ mresult = "none"
    /\ \E status \in Statuses :
        /\ GivesUp(margs.cdx, status)
        /\ Returned(status, <<"DEBUG">>)
    /\ UNCHANGED margs
    /\ UNCHANGED notGet

\* allow404 and 404: leave the loop, return the response
Allow404 ==
    /\ mresult = "none"
    /\ \E status \in Statuses :
        /\ ~GivesUp(margs.cdx, status)
        /\ Allows(margs.allow404, status)
        /\ Returned(status, <<>>)
    /\ UNCHANGED margs
    /\ UNCHANGED notGet

\* 429 and the 5xx of line 112: count, log, sleep retry_sec, go round again
RetryStatus ==
    /\ mresult = "none"
    /\ mcall.retries < MaxBackoffs
    /\ \E status \in Statuses, body \in BOOLEAN :
        /\ ~GivesUp(margs.cdx, status)
        /\ ~Allows(margs.allow404, status)
        /\ status \in RetryStatuses
        /\ LET level == IF mcall.retries + 1 > 5 THEN "WARNING" ELSE "INFO"
           IN  mlog' = IF body THEN <<level, level>> ELSE <<level>>
        /\ mcall' = [mcall EXCEPT !.retries = @ + 1, !.got = status,
                                  !.slept = mcall.retry_sec,
                                  !.slept_before = mcall.slept,
                                  !.retry_sec = Backoff(@)]
    /\ UNCHANGED <<margs, mresult>>
    /\ UNCHANGED notGet

\* 400 or 404 outside the two cases above: RuntimeError
InvalidUrl ==
    /\ mresult = "none"
    /\ \E status \in Statuses, body \in BOOLEAN :
        /\ ~GivesUp(margs.cdx, status)
        /\ ~Allows(margs.allow404, status)
        /\ status \notin RetryStatuses
        /\ status \in {"400", "404"}
        /\ mlog' = IF body THEN <<"INFO">> ELSE <<>>
        /\ mcall' = [mcall EXCEPT !.got = status]
        /\ mresult' = "RuntimeError"
    /\ UNCHANGED margs
    /\ UNCHANGED notGet

\* resp.raise_for_status(): any status left that is 400 or more raises
\* HTTPError, which the last except clause logs and raises again; the others
\* end the loop and the response is returned
RaiseForStatus ==
    /\ mresult = "none"
    /\ \E status \in Statuses :
        /\ ~GivesUp(margs.cdx, status)
        /\ ~Allows(margs.allow404, status)
        /\ status \notin RetryStatuses
        /\ status \notin {"400", "404"}
        /\ IF status = "200"
           THEN Returned(status, <<>>)
           ELSE /\ mcall' = [mcall EXCEPT !.got = status]
                /\ mlog' = <<"WARNING">>
                /\ mresult' = "HTTPError"
    /\ UNCHANGED margs
    /\ UNCHANGED notGet

\* requests.get raised ConnectionError, ChunkedEncodingError or Timeout
ConnectError ==
    /\ mresult = "none"
    /\ \E e \in ConnectErrors :
        LET connect_errors == mcall.connect_errors + 1 IN
        /\ IF e = "NameNotKnown" /\ dns_fatal(margs.url)
           THEN mlog' = <<>> /\ mresult' = "ValueError"
           ELSE IF connect_errors > raise_error_after_n_errors
           THEN mlog' = <<"ERROR">> /\ mresult' = "ValueError"
           ELSE /\ mlog' = IF connect_errors > raise_warning_after_n_errors
                           THEN <<"WARNING", "INFO">> ELSE <<"INFO">>
                /\ mresult' = mresult
        /\ mcall' = [mcall EXCEPT
                         !.connect_errors = connect_errors, !.got = e,
                         !.retry_sec = IF mresult' = "none" THEN Backoff(@) ELSE @]
    /\ UNCHANGED margs
    /\ UNCHANGED notGet

NextGet ==
    \/ GiveUp
    \/ Allow404
    \/ RetryStatus
    \/ InvalidUrl
    \/ RaiseForStatus
    \/ ConnectError

SpecGet == InitGet /\ [][NextGet]_vars

Raised == mresult \in {"RuntimeError", "HTTPError", "ValueError"}

\* the response is still being retried: the loop goes on after it
Retried == mresult = "none" /\ mcall.got \in Statuses

\* the cases in which the claim has a 4xx returned
ReturnedAsIs ==
    \/ margs.cdx /\ mcall.got \in {"400", "404"}
    \/ margs.allow404 /\ mcall.got = "404"

\* C22 as stated: a 400 or 404 in cdx mode, and a 404 with allow404, are
\* returned without a retry and without raising; every other 4xx raises and
\* is neither returned nor retried.
C22_Every4xx ==
    /\ (mcall.got \in Statuses /\ ReturnedAsIs) => mresult = "returned"
    /\ (mcall.got \in {"400", "403", "404", "429"} /\ ~ReturnedAsIs) => Raised

\* C22, amended: a 400 or 404 in cdx mode, and a 404 with allow404, are
\* returned without a retry and without raising; 429 is retried as a
\* rate-limit answer; every other 4xx raises and is neither returned nor
\* retried.
C22_StatusPolicy ==
    /\ (mcall.got \in Statuses /\ ReturnedAsIs) => mresult = "returned"
    /\ (mcall.got \in {"400", "403", "404"} /\ ~ReturnedAsIs) => Raised
    /\ (mcall.got = "429" /\ ~ReturnedAsIs) => Retried

C22_Witness ==
    /\ margs.cdx /\ ~margs.allow404
    /\ mcall.got = "404"
    /\ mresult = "returned"

\* the ceiling and the threshold the claim gives: the arguments, and 100 and
\* 10 where the caller gave none
ClaimedCeiling ==
    IF margs.raise_error_after_n_errors = NotGiven
    THEN 100 ELSE margs.raise_error_after_n_errors

ClaimedThreshold ==
    IF margs.raise_warning_after_n_errors = NotGiven
    THEN 10 ELSE margs.raise_warning_after_n_errors

HasLevel(level) == \E i \in 1..Len(mlog) : mlog[i] = level

\* C23: after a connection error the call raises, with an ERROR record, when
\* its count of connection errors exceeds the ceiling (100 unless given), and
\* otherwise goes on, with a WARNING record when the count exceeds the
\* warning threshold (10 unless given).
C23_ConnectionErrors ==
    mcall.got = "ConnectionError" =>
        IF mcall.connect_errors > ClaimedCeiling
        THEN mresult = "ValueError" /\ HasLevel("ERROR")
        ELSE /\ mresult = "none"
             /\ (mcall.connect_errors > ClaimedThreshold) = HasLevel("WARNING")


\* the call of the single thread is inside its retry loop
InLoop(c) == c.pc \in {"in_flight", "retry_sleep"}

\* C30: within one call, whatever retries occur, next_fetch is advanced by
\* the minimum interval once before the first attempt, left alone by every
\* retry, and set to the completion time plus the minimum interval when the
\* call ends.
C30_OncePerCall ==
    [][ /\ (call[1].pc = "pre" /\ call'[1].pc = "in_flight")
            => next_fetch' = call[1].nf + MinInterval
        /\ (InLoop(call[1]) /\ InLoop(call'[1]))
            => next_fetch' = next_fetch
        /\ (InLoop(call[1]) /\ call'[1].pc = "idle")
            => next_fetch' = now + MinInterval ]_vars


(***************************************************************************)
(* WARCFilter.filter: the way of an exception out of the pipeline.         *)
(* The code that runs is the main coroutine (filter_async, then            *)
(* _run_filter_pipeline) or one step of one of the tasks it created; the   *)
(* try statements around it decide where an exception raised in it stops.  *)
(***************************************************************************)

\* the coroutines of the tasks, the try blocks inside them and the finally
\* blocks of these (task_done, and writer.close around the writer's loop)
TaskCode == {"generate_range_jobs_from_cdx", "read_warc_records",
             "write_warc_records", "_coordinate_writer_shutdown"}
TryCode == {"generate_try", "read_try", "write_try"}
FinallyCode == {"read_finally", "write_finally", "write_close"}
MainCode == {"filter_async", "_run_filter_pipeline"}
PipelineCode == MainCode \cup TaskCode \cup TryCode \cup FinallyCode

\* the code around a piece of code: where an exception it does not catch
\* goes next.  With AWS clients the pipeline runs inside the async with of
\* filter_async, which closes the clients.  The exception of a task goes to the event loop, which hands
\* KeyboardInterrupt straight to asyncio.run and keeps any other for the
\* main coroutine, which awaits every task.
Around(code, e) ==
    CASE code = "generate_try" -> "generate_range_jobs_from_cdx"
      [] code = "read_try" -> "read_finally"
      [] code = "read_finally" -> "read_warc_records"
      [] code = "write_try" -> "write_finally"
      [] code = "write_finally" -> "write_close"
      [] code = "write_close" -> "write_warc_records"
      [] code \in TaskCode ->
            IF e = "KeyboardInterrupt" THEN "asyncio.run" ELSE "_run_filter_pipeline"
      [] code = "_run_filter_pipeline" ->
            IF needs_aws THEN "async_with" ELSE "filter_async"
      [] code = "async_with" -> "filter_async"
      [] code = "filter_async" -> "asyncio.run"
      [] code = "asyncio.run" -> "filter"
      [] OTHER -> "caller"

CatchesBug(code, e) ==
    \/ code \in TryCode /\ e = "Exception"
    \/ code = "filter" /\ e = "Exception"
\* the except clauses: except Exception around the work of the generator,
\* the readers and the writers, except KeyboardInterrupt in filter
Catches(code, e) ==
    \/ code \in TryCode /\ e = "Exception"
    \/ code = "filter" /\ e = "KeyboardInterrupt"

InitFilter ==
    /\ ParkedBut("filter")
    /\ sigint_cancels \in BOOLEAN
    /\ needs_aws \in BOOLEAN
    /\ at = "filter"
    /\ exc = "none"
    /\ interrupts = 0
    /\ warned = 0
    /\ filter_result = "none"

\* asyncio.run(self.filter_async())
RunPipeline ==
    /\ at = "filter" /\ exc = "none" /\ filter_result = "none"
    /\ at' = "filter_async"
    /\ UNCHANGED <<sigint_cancels, needs_aws, exc, interrupts, warned, filter_result>>
    /\ UNCHANGED notFlt

\* the main coroutine goes on, or the event loop runs a step of a task
Step ==
    /\ at \in PipelineCode /\ exc = "none"
    /\ at' \in PipelineCode \ {"filter_async"}
    /\ UNCHANGED <<sigint_cancels, needs_aws, exc, interrupts, warned, filter_result>>
    /\ UNCHANGED notFlt

\* the running code raises (a failed read, a failed write, a bad index line)
Fail ==
    /\ at \in PipelineCode /\ exc = "none"
    /\ exc' = "Exception"
    /\ UNCHANGED <<sigint_cancels, needs_aws, at, interrupts, warned, filter_result>>
    /\ UNCHANGED notFlt

\* the user interrupts while asyncio.run is running: the first interrupt
\* cancels the main task at its await where asyncio.run answers SIGINT so and
\* the main task is not done; any other raises KeyboardInterrupt in the
\* running code
Interrupt ==
    /\ at \in PipelineCode \cup {"async_with", "asyncio.run"}
    /\ interrupts < MaxInterrupts
    /\ interrupts' = interrupts + 1
    /\ IF sigint_cancels /\ interrupts = 0 /\ at # "asyncio.run"
       THEN /\ exc' = "CancelledError"
            /\ at' = IF at \in {"filter_async", "async_with"}
                     THEN at ELSE "_run_filter_pipeline"
       ELSE /\ exc' = "KeyboardInterrupt"
            /\ at' = at
    /\ UNCHANGED <<sigint_cancels, needs_aws, warned, filter_result>>
    /\ UNCHANGED notFlt

\* the exception meets the try statement of the code it has reached: it is
\* caught there, or it goes on to the code around it.  asyncio.run turns the
\* cancellation of the main task after a SIGINT into KeyboardInterrupt.
Unwind ==
    /\ exc # "none"
    /\ at # "caller"
    /\ IF Catches(at, exc)
       THEN /\ exc' = "none"
            /\ IF at = "filter"
               THEN /\ warned' = warned + 1
                    /\ filter_result' = "-1"
                    /\ at' = "caller"
               ELSE /\ at' = Around(at, exc)
                    /\ UNCHANGED <<warned, filter_result>>
       ELSE /\ at' = Around(at, exc)
            /\ exc' = IF at = "filter_async" /\ exc = "CancelledError" /\ interrupts > 0
                      THEN "KeyboardInterrupt" ELSE exc
            /\ filter_result' = IF at = "filter" THEN "raised" ELSE filter_result
            /\ UNCHANGED warned
    /\ UNCHANGED <<sigint_cancels, needs_aws, interrupts>>
    /\ UNCHANGED notFlt

\* the pipeline ends and filter returns the number of records written
ReturnCount ==
    /\ at = "_run_filter_pipeline" /\ exc = "none"
    /\ at' = "caller"
    /\ filter_result' = "count"
    /\ UNCHANGED <<sigint_cancels, needs_aws, exc, interrupts, warned>>
    /\ UNCHANGED notFlt

NextFilter ==
    \/ RunPipeline
    \/ Step
    \/ Fail
    \/ Interrupt
    \/ Unwind
    \/ ReturnCount

SpecFilter == InitFilter /\ [][NextFilter]_vars

SurtInputs == {<<>>, <<"a">>, <<"a", "b">>}

CdxLineInputs ==
    {surt \o <<" ">> \o rest \o <<"\n">> :
        surt \in SurtInputs, rest \in {<<"1">>, <<"1", " ", "b">>}}

CdxFileInputs == UNION {[1..n -> CdxLineInputs] : n \in 0..MaxCdxLines}

find_last(line, ch) ==
    IF \E i \in 1..Len(line) : line[i] = ch
    THEN (CHOOSE i \in 1..Len(line) :
            line[i] = ch /\ \A j \in (i + 1)..Len(line) : line[j] # ch) - 1
    ELSE -1
\* str.find: the index, from 0, of the first ch, or -1
find(line, ch) ==
    IF \E i \in 1..Len(line) : line[i] = ch
    THEN (CHOOSE i \in 1..Len(line) :
            line[i] = ch /\ \A j \in 1..(i - 1) : line[j] # ch) - 1
    ELSE -1

\* record_surt = line[:line.find(' ')]
record_surt(line) == PySlice(line, 0, find(line, " "))

\* matcher.is_in(record_surt)
is_in(surt) == surt \in accepted

InitCdxFilter ==
    /\ ParkedBut("cdx_filter")
    /\ input_f \in CdxFileInputs
    /\ readable \in BOOLEAN
    /\ accepted \in SUBSET SurtInputs
    /\ filter_limit \in 0..MaxFilterLimit
    /\ cfpc = "start"
    /\ cf_i = 0
    /\ output_f = <<>>
    /\ output_exists = FALSE
    /\ lines_n = 0
    /\ included_n = 0
    /\ errors_n = 0

\* the output file is opened for writing, then the input file for reading;
\* a failure is caught by the outer handler and the function returns
OpenFiles ==
    /\ cfpc = "start"
    /\ output_exists' = TRUE
    /\ IF readable
       THEN cfpc' = "lines" /\ UNCHANGED errors_n
       ELSE cfpc' = "done" /\ errors_n' = errors_n + 1
    /\ UNCHANGED <<input_f, readable, accepted, filter_limit, cf_i, output_f,
                   lines_n, included_n>>
    /\ UNCHANGED notCf

\* one turn of the loop over the lines
FilterLine ==
    /\ cfpc = "lines"
    /\ cf_i < Len(input_f)
    /\ LET line == input_f[cf_i + 1]
           include_record == is_in(record_surt(line))
       IN  /\ cf_i' = cf_i + 1
           /\ lines_n' = lines_n + 1
           /\ output_f' = IF include_record THEN Append(output_f, line) ELSE output_f
           /\ included_n' = IF include_record THEN included_n + 1 ELSE included_n
           /\ cfpc' = IF include_record /\ filter_limit > 0
                          /\ included_n' >= filter_limit
                       THEN "end" ELSE "lines"
    /\ UNCHANGED <<input_f, readable, accepted, filter_limit, output_exists,
                   errors_n>>
    /\ UNCHANGED notCf

\* no line is left
EndOfInput ==
    /\ cfpc = "lines"
    /\ cf_i = Len(input_f)
    /\ cfpc' = "end"
    /\ UNCHANGED <<input_f, readable, accepted, filter_limit, cf_i, output_f,
                   output_exists, lines_n, included_n, errors_n>>
    /\ UNCHANGED notCf

\* the files are closed; an output file without lines is removed
CloseFiles ==
    /\ cfpc = "end"
    /\ cfpc' = "done"
    /\ output_exists' = (included_n # 0)
    /\ UNCHANGED <<input_f, readable, accepted, filter_limit, cf_i, output_f,
                   lines_n, included_n, errors_n>>
    /\ UNCHANGED notCf

NextCdxFilter ==
    \/ OpenFiles
    \/ FilterLine
    \/ EndOfInput
    \/ CloseFiles

SpecCdxFilter == InitCdxFilter /\ [][NextCdxFilter]_vars

\* the text of a line before its first space
RECURSIVE BeforeFirstSpace(_)
BeforeFirstSpace(line) ==
    IF line = <<>> \/ Head(line) = " " THEN <<>>
    ELSE <<Head(line)>> \o BeforeFirstSpace(Tail(line))

SurtMatches(line) == BeforeFirstSpace(line) \in accepted

MatchingLines == SelectSeq(input_f, SurtMatches)

-----------------------------------------------------------------------------
(* More claims about the CDX fetcher *)

\* C26: when the caller gives no limit, get starts with the limit 1000 and
\* the iterator path with no limit at all.
C26_DefaultOnGetOnly ==
    ~limit_given =>
        limit0 = IF mode = "get" THEN 1000 ELSE NotGiven

\* C27: once the remaining limit is zero or negative the iterator sends no
\* further page request.
C27_NoRequestAtOrBelowZero ==
    [][(mode = "iter" /\ limit <= 0) => ~GetMoreRequest]_vars

\* the answers the claim has end the paging of an endpoint
EndsPaging == {"400", "empty", "404"}

\* C28: a page request answered with 400, with an empty body or with the 404
\* of 'No Captures' ends the paging of its endpoint: the iterator moves to
\* the following endpoint, whose page 0 is the next page asked for, and the
\* endpoint is closed.
C28_EndsEndpoint ==
    [][(mode = "iter" /\ GetMoreRequest /\ lastAns' \in EndsPaging) =>
           /\ endpoint' = endpoint + 1
           /\ page' = -1
           /\ endpoint \in closed']_vars

\* C29: the iterator sends a page request only while its buffer is empty:
\* no page is requested while records already fetched are still unyielded.
C29_Lazy ==
    [][(mode = "iter" /\ GetMoreRequest) => cdx_objs = <<>>]_vars


-----------------------------------------------------------------------------
(* More claims about the HTTP client *)

\* the call has just slept before a rate-limit retry
RateLimited == mcall.got \in RetryStatuses

RECURSIVE Doubled(_, _)
Doubled(r, n) == IF n = 0 THEN r ELSE Min(2 * Doubled(r, n - 1), 60)

\* C31 as stated: the sleep before the first rate-limit retry of a call is
\* twice the minimum interval, each later one is double the one before it,
\* capped at 60 s, and the call goes on retrying.
C31_DoubleThePrevious ==
    RateLimited =>
        /\ mresult = "none"
        /\ mcall.slept = IF mcall.retries = 1 THEN 2 * MinInterval
                         ELSE Min(2 * mcall.slept_before, 60)

\* C31, amended: the sleep before a rate-limit retry is twice the minimum
\* interval doubled once for every earlier retry of the call, rate-limit
\* retry or connection-error retry alike, capped at 60 s, and the call goes
\* on retrying.
C31_Backoff ==
    RateLimited =>
        /\ mresult = "none"
        /\ mcall.slept = Doubled(2 * MinInterval,
                                 mcall.retries - 1 + mcall.connect_errors)

C31_Witness ==
    /\ RateLimited
    /\ mcall.retries = 5 /\ mcall.connect_errors = 0
    /\ mcall.slept = 60 /\ mcall.slept_before = 48

\* the exception of this turn has the text of a failed DNS resolution
DnsError == mcall.got = "NameNotKnown"

\* raise ValueError('invalid hostname in url '+url), with nothing logged
RaisedAtOnce == mresult = "ValueError" /\ mlog = <<>>

\* C32: a DNS-resolution error raises at once exactly when the hostname of
\* the url is not among the previously seen hostnames; for a seen hostname
\* it is an ordinary connection error.
C32_DnsFatal ==
    DnsError =>
        (RaisedAtOnce <=> hostname(margs.url) \notin previously_seen_hostnames)

\* C33: an exception while a reader processes one range job (the ranged read
\* or the put on the records queue fails) is logged, yields no payload for
\* the job and leaves the reader running; the reader returns only on a STOP
\* sentinel, and it has called task_done on the jobs queue once for every
\* item it took: none of them is unfinished but the one it still holds.
C33_ReaderSurvives ==
    [][\A r \in Readers :
          LET rd == readers[r]
              nx == readers'[r]
          IN  /\ nx.unfinished = IF nx.pc = "put" THEN 1 ELSE 0
              /\ (nx.logged # rd.logged) =>
                    /\ nx.logged = rd.logged + 1
                    /\ nx.pc = "get"
                    /\ payloadsPut' = payloadsPut
                    /\ warc_records_queue' = warc_records_queue
              /\ (nx.pc = "done" /\ rd.pc # "done") =>
                    /\ range_jobs_queue # <<>>
                    /\ Head(range_jobs_queue).stop]_vars

\* a reader has returned on its STOP after a failed read, a failed put and
\* a payload it put after them
C33_Witness ==
    \E r \in Readers :
        /\ readers[r].pc = "done"
        /\ readers[r].logged >= 2
        /\ readers[r].unfinished = 0
        /\ payloadsPut >= 1

-----------------------------------------------------------------------------
(* Termination of a pipeline run.  The event loop resumes every task that   *)
(* is ready: a task whose next step stays possible takes it.  Whether a     *)
(* read, a put, a write or the opening of a shard fails is not the loop's   *)
(* choice and has no fairness.                                              *)

GenStep == GenPutJob \/ GenFileEnd \/ GenPutStop \/ GenFinish
ReaderStep(r) == ReaderGet(r) \/ ReaderPut(r)
CoordStep == CoordObserve \/ CoordPutStop
MainStep == PipelineReturn \/ PipelineRaise

\* whether a task blocks depends on the number of jobs and on the queues,
\* not on the sizes of the shards: runs without record limit, rotation and
\* resource records
InitPipeFair ==
    /\ InitPipe
    /\ record_limit = 0
    /\ max_file_size = 0
    /\ nres = 0

SpecPipeFair ==
    /\ InitPipeFair
    /\ [][NextPipe]_vars
    /\ WF_vars(GenStep)
    /\ \A r \in Readers : WF_vars(ReaderStep(r))
    /\ WF_vars(CoordStep)
    /\ \A w \in Writers : WF_vars(WriterItem(w))
    /\ WF_vars(MainStep)

\* C34: for every finite CDX input, any number of readers and writers and
\* any positive queue bounds, a pipeline run ends: _run_filter_pipeline
\* returns or raises, whatever range reads, shard openings or record writes
\* fail.
C34_Terminates == <>(result # "running")

-----------------------------------------------------------------------------
(* The job generator taken with the readers' side of the jobs queue only:   *)
(* generate_range_jobs_from_cdx over up to MaxGenFiles files, while readers *)
(* take what it puts.                                                       *)

InitGen ==
    /\ InitPipeOn(MaxGenFiles)
    /\ max_file_size = 0
    /\ nres = 0

NextGen ==
    \/ GenPutJob
    \/ GenFileEnd
    \/ GenPutStop
    \/ GenFinish
    \/ \E r \in Readers : ReaderGet(r)

SpecGen == InitGen /\ [][NextGen]_vars

RECURSIVE ValidLines(_)
\* the valid lines of the first n CDX files
ValidLines(n) == IF n = 0 THEN 0 ELSE cdx_paths[n].lines + ValidLines(n - 1)

\* C35: when every CDX file is read to its end, a generator with
\* record_limit = L > 0 over files that together hold at least L valid
\* lines has put exactly L jobs, however the lines are spread over the
\* files; with fewer than L valid lines, or with L = 0, it has put one job
\* for every valid line.
C35_JobsPut ==
    (/\ gen.pc = "done"
     /\ \A f \in 1..Len(cdx_paths) : ~cdx_paths[f].fails)
        => jobsPut = IF record_limit > 0 /\ ValidLines(Len(cdx_paths)) >= record_limit
                        THEN record_limit
                        ELSE ValidLines(Len(cdx_paths))

\* the size of the object a completed shard is
ShardSize(i) == Len(shards[i].stored)

\* C36: with max_file_size set, every shard a writer has closed has a size
\* of at most max_file_size, except a shard that holds its header, its
\* resource records and one response record only.
C36_ShardsFit ==
    max_file_size # 0 =>
        \A i \in 1..Len(shards) :
            shards[i].completed =>
                (ShardSize(i) <= max_file_size \/ shards[i].nrec = 1)

\* C37: each shard is closed exactly once and nothing is written to it after
\* its close: every close a writer calls (in rotate_files or in its finally
\* clause) and every response record it writes is on a shard writer that has
\* not been closed before, also after the opening of the next shard failed
\* during a rotation.
C37_ClosedOnce ==
    [][/\ (WRotateClose \/ WFinalClose) => shards[writer].open
       /\ WWrite => shards[writer].open]_vars

-----------------------------------------------------------------------------
(* One LocalFileWriter (cdx_toolkit/filter_warc/local_writer.py) as a       *)
(* writer task uses it: start, writes, of which one that raises is logged   *)
(* by the task and followed by the next, and close.  The k-th byte passed   *)
(* to write is the number k.                                                *)

LwMayFail == lw_failures < MaxLocalFailures

\* _flush: the whole buffer goes to the file handle (write, flush) and is
\* cleared then; when one of the two calls raises, a part of the buffer,
\* none of it or all of it has reached the file and the buffer is as it was
FlushLocal(buf, file, canFail) ==
    IF buf = <<>>
       THEN {[buffer |-> buf, file |-> file, ok |-> TRUE]}
       ELSE {[buffer |-> <<>>, file |-> file \o buf, ok |-> TRUE]}
            \cup (IF canFail
                     THEN {[buffer |-> buf, file |-> file \o SubSeq(buf, 1, k),
                            ok |-> FALSE] : k \in 0..Len(buf)}
                     ELSE {})

InitLocal ==
    /\ ParkedBut("local_writer")
    /\ lw_buffer = <<>>
    /\ file_bytes = <<>>
    /\ lw_given = <<>>
    /\ lpc = "new"
    /\ lw_failures = 0

\* start: aiofiles.open
LocalStart ==
    /\ lpc = "new"
    /\ lpc' = "open"
    /\ UNCHANGED <<lw_buffer, file_bytes, lw_given, lw_failures>>
    /\ UNCHANGED notLw

\* write: extend the buffer; flush it when it has reached buffer_size
LocalWrite ==
    /\ lpc = "open"
    /\ Len(lw_given) < MaxLocalWrites * MaxLocalData
    /\ \E n \in 1..MaxLocalData :
        LET data == [i \in 1..n |-> Len(lw_given) + i]
            buf  == lw_buffer \o data
        IN  /\ lw_given' = lw_given \o data
            /\ IF Len(buf) >= BufferSize
                  THEN \E o \in FlushLocal(buf, file_bytes, LwMayFail) :
                          /\ lw_buffer' = o.buffer
                          /\ file_bytes' = o.file
                          /\ lw_failures' = IF o.ok THEN lw_failures
                                                    ELSE lw_failures + 1
                  ELSE /\ lw_buffer' = buf
                       /\ UNCHANGED <<file_bytes, lw_failures>>
    /\ UNCHANGED lpc
    /\ UNCHANGED notLw

\* close: flush what is buffered and close the file; if the flush raises,
\* close the file and re-raise
LocalClose ==
    /\ lpc = "open"
    /\ \E o \in FlushLocal(lw_buffer, file_bytes, LwMayFail) :
          /\ lw_buffer' = o.buffer
          /\ file_bytes' = o.file
          /\ lw_failures' = IF o.ok THEN lw_failures ELSE lw_failures + 1
          /\ lpc' = IF o.ok THEN "closed" ELSE "close_raised"
    /\ UNCHANGED lw_given
    /\ UNCHANGED notLw

NextLocal ==
    \/ LocalStart
    \/ LocalWrite
    \/ LocalClose

SpecLocal == InitLocal /\ [][NextLocal]_vars

\* C38: within a single shard, the bytes persisted after close are exactly
\* the payloads written to that shard's writer, in the order the writer
\* received them, none lost, duplicated or reordered by buffering.
C38_PersistedAsWritten == lpc = "closed" => file_bytes = lw_given

\* C39: the parts of an S3 shard are uploaded with the consecutive part
\* numbers 1, 2, 3, ... in upload order and listed in that order at
\* completion; every part but the final one has exactly min_part_size
\* bytes, and after a write has returned fewer than min_part_size bytes are
\* buffered.
C39_ConsecutiveParts ==
    /\ \A i \in 1..Len(parts) : parts[i].number = i
    /\ part_number = Len(parts) + 1
    /\ \A i \in 1..(Len(parts) - 1) : parts[i].size = MinPartSize
    /\ mpu.completed => mpu.listed = parts
    /\ (spc = "ready" /\ raised = "none") => buffer < MinPartSize

\* an upload completed with three full parts and a shorter final one, after
\* a write that raised
C39_Witness ==
    /\ mpu.completed
    /\ Len(mpu.listed) = 4
    /\ mpu.listed[4].size < MinPartSize
    /\ nfailures >= 1

-----------------------------------------------------------------------------
(* One call of with_retries (cdx_toolkit/filter_warc/s3_utils.py) and what  *)
(* the operation it is given does each time it is called.                   *)

\* except (TimeoutError, ClientError, EndpointConnectionError)
Retryable == {"TimeoutError", "ClientError", "EndpointConnectionError"}
\* an exception of another class
OtherErrors == {"ValueError"}

\* urandom(1)[0], at its two ends
JitterBytes == {0, 255}

\* _backoff: base * 2 ** (attempt - 1), times a jitter of 80% to 120%, at
\* least 0.05 s
backoff_ms(a, base, byte) ==
    Max(MinSleepMs, (base * 2 ^ (a - 1) * (8 * 255 + 4 * byte)) \div (10 * 255))

ExhaustedBug(a) == a + 1 >= max_attempts
\* if attempt >= max_attempts
Exhausted(a) == a >= max_attempts

InitRetries ==
    /\ ParkedBut("with_retries")
    /\ max_attempts \in 1..MaxAttempts
    /\ base_backoff_ms \in {10, 100}
    /\ attempt = 0
    /\ calls = <<>>
    /\ last_exc = "none"
    /\ sleeps = <<>>
    /\ rt_result = "running"

\* the for loop has a next attempt
NextAttempt == rt_result = "running" /\ attempt < max_attempts

\* "return await coro_factory()"
CallReturns ==
    /\ NextAttempt
    /\ attempt' = attempt + 1
    /\ calls' = Append(calls, "ok")
    /\ rt_result' = "returned"
    /\ UNCHANGED <<max_attempts, base_backoff_ms, last_exc, sleeps>>
    /\ UNCHANGED notRt

\* the call raises one of the three: on the last attempt log, break and
\* "raise last_exc"; before it log, sleep and go round
CallFailsRetryable ==
    /\ NextAttempt
    /\ \E e \in Retryable :
          /\ attempt' = attempt + 1
          /\ calls' = Append(calls, e)
          /\ last_exc' = e
          /\ IF Exhausted(attempt')
                THEN /\ rt_result' = e
                     /\ UNCHANGED sleeps
                ELSE /\ \E byte \in JitterBytes :
                          sleeps' = Append(sleeps,
                                           backoff_ms(attempt', base_backoff_ms, byte))
                     /\ UNCHANGED rt_result
    /\ UNCHANGED <<max_attempts, base_backoff_ms>>
    /\ UNCHANGED notRt

\* the call raises another exception, which no clause catches
CallFailsOther ==
    /\ NextAttempt
    /\ \E e \in OtherErrors :
          /\ attempt' = attempt + 1
          /\ calls' = Append(calls, e)
          /\ rt_result' = e
    /\ UNCHANGED <<max_attempts, base_backoff_ms, last_exc, sleeps>>
    /\ UNCHANGED notRt

NextRetries ==
    \/ CallReturns
    \/ CallFailsRetryable
    \/ CallFailsOther

SpecRetries == InitRetries /\ [][NextRetries]_vars

\* C40 as stated: with_retries calls the operation at most max_attempts
\* times; it returns the first success without calling again, re-raises the
\* last error after exactly max_attempts calls when every call raised a
\* retryable exception, and lets any other exception propagate after exactly
\* one call.
C40_OtherAfterOneCall ==
    LET n == Len(calls) IN
    /\ n <= max_attempts
    /\ rt_result = "returned" => (calls[n] = "ok" /\ \A i \in 1..(n - 1) : calls[i] # "ok")
    /\ rt_result \in Retryable => (n = max_attempts /\ calls[n] = rt_result)
    /\ rt_result \in OtherErrors => n = 1

\* C40, amended: with_retries calls the operation at most max_attempts
\* times; only its last call can be a success or raise an exception that is
\* not retryable, so a success is returned and such an exception propagates
\* without another call, whatever the number of retryable failures before
\* it; when every call raised a retryable exception the last of them is
\* re-raised after exactly max_attempts calls; and as long as none of these
\* happened a sleep has followed every call.
C40_AtMostMaxAttempts ==
    LET n == Len(calls) IN
    /\ n <= max_attempts
    /\ \A i \in 1..(n - 1) : calls[i] \in Retryable
    /\ rt_result = "returned" <=> (n > 0 /\ calls[n] = "ok")
    /\ \A e \in OtherErrors : rt_result = e <=> (n > 0 /\ calls[n] = e)
    /\ \A e \in Retryable :
          rt_result = e <=> (n = max_attempts /\ calls[n] = e)
    /\ rt_result = "running" => Len(sleeps) = n

\* an exception that is not retryable has propagated from the third call,
\* after two retryable failures and their sleeps
C40_Witness ==
    /\ max_attempts = 3
    /\ Len(calls) = 3
    /\ calls[1] = "ClientError"
    /\ calls[2] = "TimeoutError"
    /\ rt_result = "ValueError"
    /\ Len(sleeps) = 2

=============================================================================
